---- MODULE Spec2Model ----
(***************************************************************************)
(* Approximate-equality evaluation of test_help-rs (src/src/lib.rs).       *)
(*                                                                         *)
(* f64 is modelled by a reduced-width binary floating-point format with    *)
(* the IEEE-754 structure: a sign, Precision mantissa bits, gradual        *)
(* underflow, round-to-nearest-even, signed zeros, infinities and NaN.     *)
(* A finite value is sign * m * 2^(-OneExp); m is its magnitude in units   *)
(* of the smallest subnormal.                                              *)
(***************************************************************************)
EXTENDS Integers, Sequences, FiniteSets, TLC

\* ------------------------------------------------------------------------
\* Bounds of the floating-point format and of the inputs

\* mantissa bits of the format (f64: 53)
Precision == 3

\* 1.0 is 2^OneExp units of the smallest subnormal (f64: 2^1074)
OneExp == 3

\* number of binades above the subnormal one (f64: 2045)
EMax == 2

\* longest sequence handed to evaluate_vector_eq_approx
MaxLen == 3

\* ------------------------------------------------------------------------
\* f64 values

Fin(sgn, mg) == [cls |-> "fin", sign |-> sgn, mag |-> mg]

Inf(sgn) == [cls |-> "inf", sign |-> sgn, mag |-> 0]

NaN == [cls |-> "nan", sign |-> 0, mag |-> 0]

PosZero == Fin(0, 0)

NegZero == Fin(1, 0)

UnitsPerOne == 2 ^ OneExp

One == Fin(0, UnitsPerOne)

\* magnitudes of the finite values, in units
Mags == { r * (2 ^ e) : r \in 0 .. (2 ^ Precision) - 1, e \in 0 .. EMax }

MaxMag == ((2 ^ Precision) - 1) * (2 ^ EMax)

Floats == { Fin(s, m) : s \in {0, 1}, m \in Mags } \cup { Inf(0), Inf(1), NaN }

is_nan(x) == x.cls = "nan"

IsZero(x) == x.cls = "fin" /\ x.mag = 0

\* position of a non-NaN value in the order of the extended reals, in units
Ord(x) ==
    IF x.cls = "inf"
    THEN (IF x.sign = 0 THEN MaxMag + 1 ELSE -(MaxMag + 1))
    ELSE (IF x.sign = 0 THEN x.mag ELSE -(x.mag))

\* the dyadic rational num/den as a value of the format, when it is one
Dyadic(num, den) ==
    IF num >= 0
    THEN Fin(0, (num * UnitsPerOne) \div den)
    ELSE Fin(1, ((-num) * UnitsPerOne) \div den)

\* the least binade that holds num/den units, the top one on overflow
BinadeOf(num, den) ==
    IF \E e \in 0 .. EMax : num < den * (2 ^ (Precision + e))
    THEN CHOOSE e \in 0 .. EMax :
            /\ num < den * (2 ^ (Precision + e))
            /\ \A e2 \in 0 .. EMax : num < den * (2 ^ (Precision + e2)) => e <= e2
    ELSE EMax

\* num/den units (num >= 0, den > 0) rounded to nearest, ties to even
RoundRat(s, num, den) ==
    LET e == BinadeOf(num, den)
        q == den * (2 ^ e)
        d == num \div q
        rem == num % q
        r == IF 2 * rem > q THEN d + 1
             ELSE IF 2 * rem < q THEN d
             ELSE IF d % 2 = 0 THEN d ELSE d + 1
    IN  IF r * (2 ^ e) > MaxMag THEN Inf(s) ELSE Fin(s, r * (2 ^ e))

\* f64 unary minus
FNeg(x) == IF is_nan(x) THEN NaN ELSE [x EXCEPT !.sign = 1 - x.sign]

\* the sum of two values of the format, rounded
Sum(x, y) ==
    IF is_nan(x) \/ is_nan(y) THEN NaN
    ELSE IF x.cls = "inf" /\ y.cls = "inf" THEN (IF x.sign = y.sign THEN x ELSE NaN)
    ELSE IF x.cls = "inf" THEN x
    ELSE IF y.cls = "inf" THEN y
    ELSE LET v == Ord(x) + Ord(y)
         IN  IF v = 0
             THEN (IF x.sign = 1 /\ y.sign = 1 THEN NegZero ELSE PosZero)
             ELSE IF v > 0 THEN RoundRat(0, v, 1) ELSE RoundRat(1, -v, 1)

\* the sums of all pairs of values, computed once
Sums == [x \in Floats |-> [y \in Floats |-> Sum(x, y)]]

\* f64 `+`
FAdd(x, y) == Sums[x][y]

\* f64 `-`
FSub(x, y) == FAdd(x, FNeg(y))

\* the product of two values of the format, rounded
Product(x, y) ==
    LET s == (x.sign + y.sign) % 2
    IN  IF is_nan(x) \/ is_nan(y) THEN NaN
        ELSE IF x.cls = "inf" \/ y.cls = "inf"
        THEN (IF IsZero(x) \/ IsZero(y) THEN NaN ELSE Inf(s))
        ELSE RoundRat(s, x.mag * y.mag, UnitsPerOne)

\* the products of all pairs of values, computed once
Products == [x \in Floats |-> [y \in Floats |-> Product(x, y)]]

\* f64 `*`
FMul(x, y) == Products[x][y]

\* f64 `==`
FEq(x, y) == /\ ~is_nan(x)
             /\ ~is_nan(y)
             /\ Ord(x) = Ord(y)

\* f64 `<=`
FLe(x, y) == /\ ~is_nan(x)
             /\ ~is_nan(y)
             /\ Ord(x) <= Ord(y)

\* Option<f64>
None == << >>

Some(f) == << f >>

\* ------------------------------------------------------------------------
\* mod internal: the evaluators' fields, and their constructors

NoEvaluator ==
    [kind |-> "None", factor |-> PosZero,
     multiplier_factor |-> PosZero, zero_margin_factor |-> PosZero]

margin(f) ==
    [kind |-> "MarginEvaluator", factor |-> f,
     multiplier_factor |-> PosZero, zero_margin_factor |-> PosZero]

multiplier(f) ==
    [kind |-> "MultiplierEvaluator", factor |-> f,
     multiplier_factor |-> PosZero, zero_margin_factor |-> PosZero]

zero_margin_or_multiplier(mult, zero_marg) ==
    [kind |-> "ZeroMarginOrMultiplierEvaluator", factor |-> PosZero,
     multiplier_factor |-> mult, zero_margin_factor |-> zero_marg]

CustomEvaluator ==
    [kind |-> "Custom", factor |-> PosZero,
     multiplier_factor |-> PosZero, zero_margin_factor |-> PosZero]

\* ------------------------------------------------------------------------
\* State

VARIABLES
    debug_assertions,   \* the build checks debug_assert! (a debug build)
    nan_equality,       \* the build enables the feature "nan-equality"
    s_pc,               \* scalar call: "idle", "ready", "returned", "panicked"
    s_expected,         \* scalar call: expected
    s_actual,           \* scalar call: actual
    s_evaluator,        \* scalar call: the evaluator called
    s_out,              \* scalar call: the triple evaluate returned
    pc,                 \* vector call: "idle", "start", "loop", "done", "panicked"
    expected,           \* vector call: the expected sequence
    actual,             \* vector call: the actual sequence
    evaluator,          \* vector call: the evaluator passed in
    ix,                 \* vector call: loop index (0-based, as in the source)
    any_inexact,        \* vector call: local any_inexact
    margin_factor,      \* vector call: local margin_factor
    multiplier_factor,  \* vector call: local multiplier_factor
    result,             \* vector call: the triple returned
    calls,              \* vector call: the evaluator's invocations, in order
    sh_evaluator,       \* concurrent calls: the evaluator the callers share
    sh_log,             \* concurrent calls: the scalar evaluations made so far
    c_pc,               \* concurrent calls, per caller: "idle", "start", "loop", ...
    c_expected,         \* concurrent calls, per caller: the expected sequence
    c_actual,           \* concurrent calls, per caller: the actual sequence
    c_ix,               \* concurrent calls, per caller: loop index
    c_any_inexact,      \* concurrent calls, per caller: local any_inexact
    c_margin_factor,    \* concurrent calls, per caller: local margin_factor
    c_multiplier_factor,\* concurrent calls, per caller: local multiplier_factor
    c_result,           \* concurrent calls, per caller: the triple returned
    a_status,           \* assertions, per macro: "idle", "called", "evaluating", ...
    a_expected,         \* assertions: the first argument of the macros
    a_actual,           \* assertions: the second argument of the macros
    a_evaluator,        \* assertions: the third argument; NoEvaluator when omitted
    a_answer,           \* assertions: what a custom evaluator answers for the pair
    a_seen,             \* assertions, per macro: the triple the macro matched on
    a_message           \* assertions, per macro: the failure message's fields

build_vars == << debug_assertions, nan_equality >>

scalar_vars == << s_pc, s_expected, s_actual, s_evaluator, s_out >>

vector_vars == << pc, expected, actual, evaluator, ix, any_inexact,
                  margin_factor, multiplier_factor, result, calls >>

caller_vars == << c_pc, c_expected, c_actual, c_ix, c_any_inexact,
                  c_margin_factor, c_multiplier_factor, c_result >>

shared_vars == << sh_evaluator, sh_log, caller_vars >>

assert_vars == << a_status, a_expected, a_actual, a_evaluator, a_answer, a_seen,
                 a_message >>

vars == << build_vars, scalar_vars, vector_vars, shared_vars, assert_vars >>

\* ------------------------------------------------------------------------
\* mod utils: the comparison primitives

ComparisonResult == { "ExactlyEqual", "ApproximatelyEqual", "Unequal" }

\* slip: the factor required to be positive, `> 0.0`
DebugAssertFails_Strict(factor) ==
    debug_assertions /\ ~(FLe(PosZero, factor) /\ ~FEq(PosZero, factor))

\* debug_assert!(factor >= 0.0) fails
DebugAssertFails(factor) == debug_assertions /\ ~FLe(PosZero, factor)

\* slip: the range built with `..`, which leaves its upper end out
result_from_range__HalfOpen(lo, hi, act) ==
    LET r == IF FLe(lo, hi) THEN << lo, hi >> ELSE << hi, lo >>
    IN  IF FLe(r[1], act) /\ FLe(act, r[2]) /\ ~FEq(act, r[2])
        THEN "ApproximatelyEqual"
        ELSE "Unequal"

\* slip: the ends taken as given, lo..=hi, never exchanged
result_from_range__NoSwap(lo, hi, act) ==
    IF FLe(lo, act) /\ FLe(act, hi)
    THEN "ApproximatelyEqual"
    ELSE "Unequal"

\* lo and hi are passed by value; r is lo..=hi, or hi..=lo
result_from_range_(lo, hi, act) ==
    IF \E l \in { lo }, h \in { hi } :
            \E r \in { IF FLe(l, h) THEN << l, h >> ELSE << h, l >> } :
                FLe(r[1], act) /\ FLe(act, r[2])
    THEN "ApproximatelyEqual"
    ELSE "Unequal"


\* slip: the interval reaches upwards only, from `expected` itself
compare_approximate_equality_by_margin_OneSided(exp, act, factor) ==
    IF DebugAssertFails(factor) THEN "Panic"
    ELSE IF FEq(exp, act) THEN "ExactlyEqual"
    ELSE IF nan_equality /\ is_nan(exp) /\ is_nan(act) THEN "ExactlyEqual"
    ELSE IF FEq(PosZero, factor) THEN "Unequal"
    ELSE result_from_range_(exp, FAdd(exp, factor), act)

\* slip: the zero-factor return placed before the equality test
compare_approximate_equality_by_margin_ZeroFirst(exp, act, factor) ==
    IF DebugAssertFails(factor) THEN "Panic"
    ELSE IF FEq(PosZero, factor) THEN "Unequal"
    ELSE IF FEq(exp, act) THEN "ExactlyEqual"
    ELSE IF nan_equality /\ is_nan(exp) /\ is_nan(act) THEN "ExactlyEqual"
    ELSE result_from_range_(FSub(exp, factor), FAdd(exp, factor), act)

\* slip: the zero-factor return copied from the return above it
compare_approximate_equality_by_margin_ZeroExact(exp, act, factor) ==
    IF DebugAssertFails(factor) THEN "Panic"
    ELSE IF FEq(exp, act) THEN "ExactlyEqual"
    ELSE IF nan_equality /\ is_nan(exp) /\ is_nan(act) THEN "ExactlyEqual"
    ELSE IF FEq(PosZero, factor) THEN "ExactlyEqual"
    ELSE result_from_range_(FSub(exp, factor), FAdd(exp, factor), act)

compare_approximate_equality_by_margin(exp, act, factor) ==
    IF DebugAssertFails(factor) THEN "Panic"
    ELSE IF FEq(exp, act) THEN "ExactlyEqual"
    ELSE IF nan_equality /\ is_nan(exp) /\ is_nan(act) THEN "ExactlyEqual"
    ELSE IF FEq(PosZero, factor) THEN "Unequal"
    ELSE result_from_range_(FSub(exp, factor), FAdd(exp, factor), act)

\* slip: both ends of the interval computed with `1.0 - multiplier_factor`
compare_approximate_equality_by_multiplier_BothLow(exp, act, factor) ==
    IF DebugAssertFails(factor) THEN "Panic"
    ELSE IF FEq(exp, act) THEN "ExactlyEqual"
    ELSE IF nan_equality /\ is_nan(exp) /\ is_nan(act) THEN "ExactlyEqual"
    ELSE IF FEq(PosZero, factor) THEN "Unequal"
    ELSE result_from_range_(FMul(exp, FSub(One, factor)),
                            FMul(exp, FSub(One, factor)), act)

\* slip: the zero-factor test written `multiplier_factor <= 0.0`
compare_approximate_equality_by_multiplier_NonPositive(exp, act, factor) ==
    IF DebugAssertFails(factor) THEN "Panic"
    ELSE IF FEq(exp, act) THEN "ExactlyEqual"
    ELSE IF nan_equality /\ is_nan(exp) /\ is_nan(act) THEN "ExactlyEqual"
    ELSE IF FLe(factor, PosZero) THEN "Unequal"
    ELSE result_from_range_(FMul(exp, FSub(One, factor)),
                            FMul(exp, FAdd(One, factor)), act)

\* slip: around an expected of zero the factor is used as a margin
compare_approximate_equality_by_multiplier_ZeroAsMargin(exp, act, factor) ==
    IF DebugAssertFails(factor) THEN "Panic"
    ELSE IF FEq(exp, act) THEN "ExactlyEqual"
    ELSE IF nan_equality /\ is_nan(exp) /\ is_nan(act) THEN "ExactlyEqual"
    ELSE IF FEq(PosZero, factor) THEN "Unequal"
    ELSE IF FEq(PosZero, exp)
    THEN result_from_range_(FSub(exp, factor), FAdd(exp, factor), act)
    ELSE result_from_range_(FMul(exp, FSub(One, factor)),
                            FMul(exp, FAdd(One, factor)), act)

\* slip: the interval built around `actual`, and `expected` looked up in it
compare_approximate_equality_by_multiplier_AroundActual(exp, act, factor) ==
    IF DebugAssertFails(factor) THEN "Panic"
    ELSE IF FEq(exp, act) THEN "ExactlyEqual"
    ELSE IF nan_equality /\ is_nan(exp) /\ is_nan(act) THEN "ExactlyEqual"
    ELSE IF FEq(PosZero, factor) THEN "Unequal"
    ELSE result_from_range_(FMul(act, FSub(One, factor)),
                            FMul(act, FAdd(One, factor)), exp)

\* slip: the NaN test of nan-equality written with `||`
compare_approximate_equality_by_multiplier_EitherNaN(exp, act, factor) ==
    IF DebugAssertFails(factor) THEN "Panic"
    ELSE IF FEq(exp, act) THEN "ExactlyEqual"
    ELSE IF nan_equality /\ (is_nan(exp) \/ is_nan(act)) THEN "ExactlyEqual"
    ELSE IF FEq(PosZero, factor) THEN "Unequal"
    ELSE result_from_range_(FMul(exp, FSub(One, factor)),
                            FMul(exp, FAdd(One, factor)), act)

compare_approximate_equality_by_multiplier(exp, act, factor) ==
    IF DebugAssertFails(factor) THEN "Panic"
    ELSE IF FEq(exp, act) THEN "ExactlyEqual"
    ELSE IF nan_equality /\ is_nan(exp) /\ is_nan(act) THEN "ExactlyEqual"
    ELSE IF FEq(PosZero, factor) THEN "Unequal"
    ELSE result_from_range_(FMul(exp, FSub(One, factor)),
                            FMul(exp, FAdd(One, factor)), act)

\* slip: each factor checked only where its rule is applied
compare_approximate_equality_by_zero_margin_or_multiplier_LateAssert(exp, act, mult, marg) ==
    IF FEq(exp, act) THEN "ExactlyEqual"
    ELSE IF nan_equality /\ is_nan(exp) /\ is_nan(act) THEN "ExactlyEqual"
    ELSE IF FEq(PosZero, exp) \/ FEq(PosZero, act)
    THEN (IF DebugAssertFails(marg) THEN "Panic"
          ELSE IF FEq(PosZero, marg) THEN "Unequal"
          ELSE result_from_range_(FSub(exp, marg), FAdd(exp, marg), act))
    ELSE (IF DebugAssertFails(mult) THEN "Panic"
          ELSE IF FEq(PosZero, mult) THEN "Unequal"
          ELSE result_from_range_(FMul(exp, FSub(One, mult)),
                                  FMul(exp, FAdd(One, mult)), act))

\* slip: only `expected` tested against zero
compare_approximate_equality_by_zero_margin_or_multiplier_ExpectedOnly(exp, act, mult, marg) ==
    IF DebugAssertFails(mult) \/ DebugAssertFails(marg) THEN "Panic"
    ELSE IF FEq(exp, act) THEN "ExactlyEqual"
    ELSE IF nan_equality /\ is_nan(exp) /\ is_nan(act) THEN "ExactlyEqual"
    ELSE IF FEq(PosZero, exp)
    THEN (IF FEq(PosZero, marg) THEN "Unequal"
          ELSE result_from_range_(FSub(exp, marg), FAdd(exp, marg), act))
    ELSE (IF FEq(PosZero, mult) THEN "Unequal"
          ELSE result_from_range_(FMul(exp, FSub(One, mult)),
                                  FMul(exp, FAdd(One, mult)), act))

compare_approximate_equality_by_zero_margin_or_multiplier(exp, act, mult, marg) ==
    IF DebugAssertFails(mult) \/ DebugAssertFails(marg) THEN "Panic"
    ELSE IF FEq(exp, act) THEN "ExactlyEqual"
    ELSE IF nan_equality /\ is_nan(exp) /\ is_nan(act) THEN "ExactlyEqual"
    ELSE IF FEq(PosZero, exp) \/ FEq(PosZero, act)
    THEN (IF FEq(PosZero, marg) THEN "Unequal"
          ELSE result_from_range_(FSub(exp, marg), FAdd(exp, marg), act))
    ELSE (IF FEq(PosZero, mult) THEN "Unequal"
          ELSE result_from_range_(FMul(exp, FSub(One, mult)),
                                  FMul(exp, FAdd(One, mult)), act))

\* ------------------------------------------------------------------------
\* mod internal: the stock evaluators' evaluate

MarginEvaluator_evaluate(self, exp, act) ==
    << compare_approximate_equality_by_margin(exp, act, self.factor),
       Some(self.factor), None >>

MultiplierEvaluator_evaluate(self, exp, act) ==
    << compare_approximate_equality_by_multiplier(exp, act, self.factor),
       None, Some(self.factor) >>

\* slip: the two factors reported in each other's place
ZeroMarginOrMultiplierEvaluator_evaluate_Swapped(self, exp, act) ==
    << compare_approximate_equality_by_zero_margin_or_multiplier(
           exp, act, self.multiplier_factor, self.zero_margin_factor),
       Some(self.multiplier_factor), Some(self.zero_margin_factor) >>

ZeroMarginOrMultiplierEvaluator_evaluate(self, exp, act) ==
    << compare_approximate_equality_by_zero_margin_or_multiplier(
           exp, act, self.multiplier_factor, self.zero_margin_factor),
       Some(self.zero_margin_factor), Some(self.multiplier_factor) >>

\* dynamic dispatch of a stock evaluator's evaluate
evaluate(self, exp, act) ==
    CASE self.kind = "MarginEvaluator" -> MarginEvaluator_evaluate(self, exp, act)
      [] self.kind = "MultiplierEvaluator" -> MultiplierEvaluator_evaluate(self, exp, act)
      [] self.kind = "ZeroMarginOrMultiplierEvaluator" ->
            ZeroMarginOrMultiplierEvaluator_evaluate(self, exp, act)

\* a panic inside evaluate unwinds: no triple is returned
Panicked(out) == out[1] = "Panic"

\* ------------------------------------------------------------------------
\* Calls of the stock evaluators' evaluate on f64 comparands (ScalarSpec)

Quarter == Dyadic(1, 4)

Half == Dyadic(1, 2)

\* the smallest positive value of the format
Tiny == Fin(0, 1)

\* factors handed to margin() and multiplier()
ScalarFactors ==
    { PosZero, Tiny, Quarter, Half, One, Dyadic(3, 2), Inf(0),
      FNeg(Half), FNeg(Dyadic(3, 2)), Inf(1) }

\* factors handed to zero_margin_or_multiplier()
ZeroMarginFactors == { PosZero, Quarter, Half, Inf(0), FNeg(Half) }

\* the threads that call evaluate_vector_eq_approx at the same time
Callers == { 1, 2 }

\* the four assertion macros, numbered in the order of the source
ScalarEq == 1

ScalarNe == 2

VectorEq == 3

VectorNe == 4

Macros == { ScalarEq, ScalarNe, VectorEq, VectorNe }

IdleAssert ==
    /\ a_status = [m \in Macros |-> "idle"]
    /\ a_expected = << >>
    /\ a_actual = << >>
    /\ a_evaluator = NoEvaluator
    /\ a_answer = << >>
    /\ a_seen = [m \in Macros |-> << >>]
    /\ a_message = [m \in Macros |-> << >>]

IdleShared ==
    /\ sh_evaluator = NoEvaluator
    /\ sh_log = { }
    /\ c_pc = [c \in Callers |-> "idle"]
    /\ c_expected = [c \in Callers |-> << >>]
    /\ c_actual = [c \in Callers |-> << >>]
    /\ c_ix = [c \in Callers |-> 0]
    /\ c_any_inexact = [c \in Callers |-> FALSE]
    /\ c_margin_factor = [c \in Callers |-> None]
    /\ c_multiplier_factor = [c \in Callers |-> None]
    /\ c_result = [c \in Callers |-> << >>]

IdleVector ==
    /\ pc = "idle"
    /\ expected = << >>
    /\ actual = << >>
    /\ evaluator = NoEvaluator
    /\ ix = 0
    /\ any_inexact = FALSE
    /\ margin_factor = None
    /\ multiplier_factor = None
    /\ result = << >>
    /\ calls = << >>

ScalarInit ==
    /\ debug_assertions \in BOOLEAN
    /\ nan_equality \in BOOLEAN
    /\ s_pc = "ready"
    /\ s_expected \in Floats
    /\ s_actual \in Floats
    /\ s_evaluator = NoEvaluator
    /\ s_out = << >>
    /\ IdleVector
    /\ IdleShared
    /\ IdleAssert

\* evaluator.evaluate(expected, actual) returns, or panics in debug_assert!
ScalarCall(ev) ==
    /\ s_pc = "ready"
    /\ s_evaluator' = ev
    /\ LET out == evaluate(ev, s_expected, s_actual)
       IN  IF Panicked(out)
           THEN s_pc' = "panicked" /\ s_out' = << >>
           ELSE s_pc' = "returned" /\ s_out' = out
    /\ UNCHANGED << s_expected, s_actual, build_vars, vector_vars, shared_vars,
                    assert_vars >>

CallMargin == \E f \in ScalarFactors : ScalarCall(margin(f))

CallMultiplier == \E f \in ScalarFactors : ScalarCall(multiplier(f))

CallZeroMarginOrMultiplier ==
    \E m \in ZeroMarginFactors, z \in ZeroMarginFactors :
        ScalarCall(zero_margin_or_multiplier(m, z))

ScalarNext == CallMargin \/ CallMultiplier \/ CallZeroMarginOrMultiplier

ScalarSpec == ScalarInit /\ [][ScalarNext]_vars

\* ------------------------------------------------------------------------
\* Elements that are TestableAsF64

F64(x) == [ty |-> "f64", val |-> x, int |-> 0]

I32(i) == [ty |-> "i32", val |-> PosZero, int |-> i]

\* to_f64 of the element: the value itself, or the integer converted
testable_as_f64(el) ==
    IF el.ty = "f64" THEN el.val
    ELSE IF el.int >= 0 THEN RoundRat(0, el.int * UnitsPerOne, 1)
    ELSE RoundRat(1, (-el.int) * UnitsPerOne, 1)

\* ------------------------------------------------------------------------
\* An evaluator that is not a stock one (CustomEvaluator): any implementor
\* of the trait

\* the factor pairs the implementor reports; a call may report either
CustomFactors == { << Some(PosZero), Some(PosZero) >>, << Some(Half), None >> }

\* what a call of the implementor's evaluate may return
CustomOutcomes ==
    { << r, fs[1], fs[2] >> : r \in ComparisonResult, fs \in CustomFactors }

\* the triples evaluator.evaluate(exp, act) may return
EvaluatorOutcomes(ev, exp, act) ==
    IF ev.kind = "Custom" THEN CustomOutcomes ELSE { evaluate(ev, exp, act) }

\* the two projections are taken once, then handed to the evaluator
evaluate_scalar_eq_approx(exp_el, act_el, ev) ==
    UNION { EvaluatorOutcomes(ev, exp, act) :
                exp \in { testable_as_f64(exp_el) }, act \in { testable_as_f64(act_el) } }

\* ------------------------------------------------------------------------
\* VectorComparisonResult

VCR(tag, el, al, i, ev, av) ==
    [tag |-> tag, expected_length |-> el, actual_length |-> al,
     index_of_first_unequal_element |-> i,
     expected_value_of_first_unequal_element |-> ev,
     actual_value_of_first_unequal_element |-> av]

VExactlyEqual == VCR("ExactlyEqual", 0, 0, 0, PosZero, PosZero)

VApproximatelyEqual == VCR("ApproximatelyEqual", 0, 0, 0, PosZero, PosZero)

DifferentLengths(el, al) == VCR("DifferentLengths", el, al, 0, PosZero, PosZero)

UnequalElements(i, ev, av) == VCR("UnequalElements", 0, 0, i, ev, av)

\* ------------------------------------------------------------------------
\* evaluate_vector_eq_approx (Spec)
\*
\* One call, in a debug or a release build with the default features. The
\* sequences hold elements of two types, an integer one and f64; the
\* evaluator is a stock one (one of them holding a negative factor) or an
\* arbitrary implementor of the trait, whose every call may answer anything.

SeqsUpTo(S, n) == UNION { [1 .. k -> S] : k \in 0 .. n }

VecElems == { I32(-2), F64(Dyadic(-5, 2)), F64(Dyadic(-7, 2)) }

CustomExpectedElems == { I32(-2) }

CustomActualElems == { I32(-2), F64(Dyadic(-5, 2)) }

StockEvaluators ==
    { margin(Half), multiplier(Quarter), zero_margin_or_multiplier(Tiny, Half),
      margin(FNeg(Half)) }

IdleScalar ==
    /\ s_pc = "idle"
    /\ s_expected = PosZero
    /\ s_actual = PosZero
    /\ s_evaluator = NoEvaluator
    /\ s_out = << >>

Init ==
    /\ debug_assertions \in BOOLEAN
    /\ nan_equality = FALSE
    /\ IdleScalar
    /\ pc = "start"
    /\ \/ /\ evaluator \in StockEvaluators
          /\ expected \in SeqsUpTo(VecElems, MaxLen)
          /\ actual \in SeqsUpTo(VecElems, MaxLen)
       \/ /\ evaluator = CustomEvaluator
          /\ expected \in SeqsUpTo(CustomExpectedElems, MaxLen)
          /\ actual \in SeqsUpTo(CustomActualElems, MaxLen)
    /\ ix = 0
    /\ any_inexact = FALSE
    /\ margin_factor = None
    /\ multiplier_factor = None
    /\ result = << >>
    /\ calls = << >>
    /\ IdleShared
    /\ IdleAssert

\* slip: the two lengths reported in the wrong order
LengthsReturn_Swapped ==
    << DifferentLengths(Len(actual), Len(expected)), None, None >>

\* the return of the length check
LengthsReturn == << DifferentLengths(Len(expected), Len(actual)), None, None >>

\* slip: every ApproximatelyEqual element records its factors
InexactLocals_Overwrite(out) == << TRUE, out[2], out[3] >>

\* the locals (any_inexact, margin_factor, multiplier_factor) after an
\* ApproximatelyEqual element
InexactLocals(out) ==
    IF ~any_inexact
    THEN << TRUE, out[2], out[3] >>
    ELSE << any_inexact, margin_factor, multiplier_factor >>

\* slip: the index reported 1-based
UnequalReturn_OneBased(out) ==
    << UnequalElements(ix + 1, testable_as_f64(expected[ix + 1]),
                       testable_as_f64(actual[ix + 1])),
       out[2], out[3] >>

\* slip: the factors recorded by the loop returned, not the element's own
UnequalReturn_Recorded(out) ==
    << UnequalElements(ix, testable_as_f64(expected[ix + 1]),
                       testable_as_f64(actual[ix + 1])),
       margin_factor, multiplier_factor >>

\* the return of the Unequal arm
UnequalReturn(out) ==
    << UnequalElements(ix, testable_as_f64(expected[ix + 1]),
                       testable_as_f64(actual[ix + 1])),
       out[2], out[3] >>

\* slip: the passing return carries no factors
LoopReturn_NoFactors ==
    << IF any_inexact THEN VApproximatelyEqual ELSE VExactlyEqual, None, None >>

\* slip: the two arms of `if any_inexact` exchanged
LoopReturn_Inverted ==
    << IF any_inexact THEN VExactlyEqual ELSE VApproximatelyEqual,
       margin_factor, multiplier_factor >>

\* the return after the loop
LoopReturn ==
    << IF any_inexact THEN VApproximatelyEqual ELSE VExactlyEqual,
       margin_factor, multiplier_factor >>

\* the length check, and the loop's locals
Begin ==
    /\ pc = "start"
    /\ IF Len(expected) # Len(actual)
       THEN /\ result' = LengthsReturn
            /\ pc' = "done"
       ELSE /\ pc' = "loop"
            /\ UNCHANGED result
    /\ any_inexact' = FALSE
    /\ margin_factor' = None
    /\ multiplier_factor' = None
    /\ UNCHANGED << expected, actual, evaluator, ix, calls, build_vars, scalar_vars,
                    shared_vars, assert_vars >>

\* slip: an Unequal element does not end the loop
Step_NoReturn ==
    /\ pc = "loop"
    /\ ix < Len(expected)
    /\ \E out \in evaluate_scalar_eq_approx(expected[ix + 1], actual[ix + 1], evaluator) :
        /\ calls' = Append(calls, [ix |-> ix, out |-> out])
        /\ CASE out[1] = "Panic" ->
                  /\ pc' = "panicked"
                  /\ UNCHANGED << ix, any_inexact, margin_factor, multiplier_factor, result >>
             [] out[1] = "ExactlyEqual" ->
                  /\ ix' = ix + 1
                  /\ UNCHANGED << pc, any_inexact, margin_factor, multiplier_factor, result >>
             [] out[1] = "ApproximatelyEqual" ->
                  /\ ix' = ix + 1
                  /\ LET locals == InexactLocals(out)
                     IN  /\ any_inexact' = locals[1]
                         /\ margin_factor' = locals[2]
                         /\ multiplier_factor' = locals[3]
                  /\ UNCHANGED << pc, result >>
             [] out[1] = "Unequal" ->
                  /\ ix' = ix + 1
                  /\ UNCHANGED << pc, any_inexact, margin_factor, multiplier_factor, result >>
    /\ UNCHANGED << expected, actual, evaluator, build_vars, scalar_vars, shared_vars,
                    assert_vars >>

\* slip: the index not advanced past an ExactlyEqual element
Step_NoAdvance ==
    /\ pc = "loop"
    /\ ix < Len(expected)
    /\ \E out \in evaluate_scalar_eq_approx(expected[ix + 1], actual[ix + 1], evaluator) :
        /\ calls' = Append(calls, [ix |-> ix, out |-> out])
        /\ CASE out[1] = "Panic" ->
                  /\ pc' = "panicked"
                  /\ UNCHANGED << ix, any_inexact, margin_factor, multiplier_factor, result >>
             [] out[1] = "ExactlyEqual" ->
                  UNCHANGED << ix, pc, any_inexact, margin_factor, multiplier_factor, result >>
             [] out[1] = "ApproximatelyEqual" ->
                  /\ ix' = ix + 1
                  /\ LET locals == InexactLocals(out)
                     IN  /\ any_inexact' = locals[1]
                         /\ margin_factor' = locals[2]
                         /\ multiplier_factor' = locals[3]
                  /\ UNCHANGED << pc, result >>
             [] out[1] = "Unequal" ->
                  /\ result' = UnequalReturn(out)
                  /\ pc' = "done"
                  /\ UNCHANGED << ix, any_inexact, margin_factor, multiplier_factor >>
    /\ UNCHANGED << expected, actual, evaluator, build_vars, scalar_vars, shared_vars,
                    assert_vars >>

\* one iteration of `for ix in 0..expected_length`
Step ==
    /\ pc = "loop"
    /\ ix < Len(expected)
    /\ \E out \in evaluate_scalar_eq_approx(expected[ix + 1], actual[ix + 1], evaluator) :
        /\ calls' = Append(calls, [ix |-> ix, out |-> out])
        /\ CASE out[1] = "Panic" ->
                  /\ pc' = "panicked"
                  /\ UNCHANGED << ix, any_inexact, margin_factor, multiplier_factor, result >>
             [] out[1] = "ExactlyEqual" ->
                  /\ ix' = ix + 1
                  /\ UNCHANGED << pc, any_inexact, margin_factor, multiplier_factor, result >>
             [] out[1] = "ApproximatelyEqual" ->
                  /\ ix' = ix + 1
                  /\ LET locals == InexactLocals(out)
                     IN  /\ any_inexact' = locals[1]
                         /\ margin_factor' = locals[2]
                         /\ multiplier_factor' = locals[3]
                  /\ UNCHANGED << pc, result >>
             [] out[1] = "Unequal" ->
                  /\ result' = UnequalReturn(out)
                  /\ pc' = "done"
                  /\ UNCHANGED << ix, any_inexact, margin_factor, multiplier_factor >>
    /\ UNCHANGED << expected, actual, evaluator, build_vars, scalar_vars, shared_vars,
                    assert_vars >>

\* the loop ran to its end
Finish ==
    /\ pc = "loop"
    /\ ix = Len(expected)
    /\ result' = LoopReturn
    /\ pc' = "done"
    /\ UNCHANGED << expected, actual, evaluator, ix, any_inexact, margin_factor,
                    multiplier_factor, calls, build_vars, scalar_vars, shared_vars,
                    assert_vars >>

Next == Begin \/ Step \/ Finish

Spec == Init /\ [][Next]_vars

\* the thread that runs the call keeps running: a step that can be taken is
\* taken
FairSpec == Spec /\ WF_vars(Next)

\* ------------------------------------------------------------------------
\* Concurrent calls of evaluate_vector_eq_approx (SharedSpec)
\*
\* Each caller is a thread running evaluate_vector_eq_approx on sequences of
\* its own; all of them pass a reference to the same stock evaluator. A step
\* of the model is one caller's length check, one iteration of its loop, or
\* its return after the loop; the steps of the callers interleave freely.

\* longest sequence a concurrent caller passes
SharedLen == 2

SharedExpectedElems == { I32(-2) }

SharedActualElems == { I32(-2), F64(Dyadic(-5, 2)) }

SharedEvaluators ==
    { margin(Half), zero_margin_or_multiplier(Tiny, Half), margin(FNeg(Half)) }

SharedInit ==
    /\ debug_assertions \in BOOLEAN
    /\ nan_equality = FALSE
    /\ IdleScalar
    /\ IdleVector
    /\ sh_evaluator \in SharedEvaluators
    /\ sh_log = { }
    /\ c_pc = [c \in Callers |-> "start"]
    /\ c_expected \in [Callers -> SeqsUpTo(SharedExpectedElems, SharedLen)]
    /\ c_actual \in [Callers -> SeqsUpTo(SharedActualElems, SharedLen)]
    /\ c_ix = [c \in Callers |-> 0]
    /\ c_any_inexact = [c \in Callers |-> FALSE]
    /\ c_margin_factor = [c \in Callers |-> None]
    /\ c_multiplier_factor = [c \in Callers |-> None]
    /\ c_result = [c \in Callers |-> << >>]
    /\ IdleAssert

\* slip: evaluate taking `&mut self` and tightening its tolerance per call
SelfAfterEvaluate_Tightened(self) ==
    [self EXCEPT !.factor = FMul(self.factor, Half)]

\* the evaluator after a call of evaluate, which borrows it as `&self`
SelfAfterEvaluate(self) == self

\* slip: the loop's locals kept in statics, which all the calls share
CallerInexactLocals_Static(c, out) ==
    IF ~(\E d \in Callers : c_any_inexact[d])
    THEN << TRUE, out[2], out[3] >>
    ELSE << TRUE, c_margin_factor[c], c_multiplier_factor[c] >>

\* the caller's locals (any_inexact, margin_factor, multiplier_factor) after
\* an ApproximatelyEqual element
CallerInexactLocals(c, out) ==
    IF ~c_any_inexact[c]
    THEN << TRUE, out[2], out[3] >>
    ELSE << c_any_inexact[c], c_margin_factor[c], c_multiplier_factor[c] >>

\* the caller's return of the length check
CallerLengthsReturn(c) ==
    << DifferentLengths(Len(c_expected[c]), Len(c_actual[c])), None, None >>

\* the caller's return of the Unequal arm
CallerUnequalReturn(c, out) ==
    << UnequalElements(c_ix[c], testable_as_f64(c_expected[c][c_ix[c] + 1]),
                       testable_as_f64(c_actual[c][c_ix[c] + 1])),
       out[2], out[3] >>

\* the caller's return after the loop
CallerLoopReturn(c) ==
    << IF c_any_inexact[c] THEN VApproximatelyEqual ELSE VExactlyEqual,
       c_margin_factor[c], c_multiplier_factor[c] >>

\* caller c: the length check, and the loop's locals
CallerBegin(c) ==
    /\ c_pc[c] = "start"
    /\ IF Len(c_expected[c]) # Len(c_actual[c])
       THEN /\ c_result' = [c_result EXCEPT ![c] = CallerLengthsReturn(c)]
            /\ c_pc' = [c_pc EXCEPT ![c] = "done"]
       ELSE /\ c_pc' = [c_pc EXCEPT ![c] = "loop"]
            /\ UNCHANGED c_result
    /\ c_any_inexact' = [c_any_inexact EXCEPT ![c] = FALSE]
    /\ c_margin_factor' = [c_margin_factor EXCEPT ![c] = None]
    /\ c_multiplier_factor' = [c_multiplier_factor EXCEPT ![c] = None]
    /\ UNCHANGED << c_expected, c_actual, c_ix, sh_evaluator, sh_log,
                    build_vars, scalar_vars, vector_vars, assert_vars >>

\* caller c: one iteration of `for ix in 0..expected_length`
CallerStep(c) ==
    /\ c_pc[c] = "loop"
    /\ c_ix[c] < Len(c_expected[c])
    /\ LET exp_el == c_expected[c][c_ix[c] + 1]
           act_el == c_actual[c][c_ix[c] + 1]
       IN  \E out \in evaluate_scalar_eq_approx(exp_el, act_el, sh_evaluator) :
            /\ sh_log' = sh_log \cup { << exp_el, act_el, out >> }
            /\ sh_evaluator' = SelfAfterEvaluate(sh_evaluator)
            /\ CASE out[1] = "Panic" ->
                      /\ c_pc' = [c_pc EXCEPT ![c] = "panicked"]
                      /\ UNCHANGED << c_ix, c_any_inexact, c_margin_factor,
                                      c_multiplier_factor, c_result >>
                 [] out[1] = "ExactlyEqual" ->
                      /\ c_ix' = [c_ix EXCEPT ![c] = c_ix[c] + 1]
                      /\ UNCHANGED << c_pc, c_any_inexact, c_margin_factor,
                                      c_multiplier_factor, c_result >>
                 [] out[1] = "ApproximatelyEqual" ->
                      /\ c_ix' = [c_ix EXCEPT ![c] = c_ix[c] + 1]
                      /\ LET locals == CallerInexactLocals(c, out)
                         IN  /\ c_any_inexact' = [c_any_inexact EXCEPT ![c] = locals[1]]
                             /\ c_margin_factor' = [c_margin_factor EXCEPT ![c] = locals[2]]
                             /\ c_multiplier_factor' =
                                   [c_multiplier_factor EXCEPT ![c] = locals[3]]
                      /\ UNCHANGED << c_pc, c_result >>
                 [] out[1] = "Unequal" ->
                      /\ c_result' = [c_result EXCEPT ![c] = CallerUnequalReturn(c, out)]
                      /\ c_pc' = [c_pc EXCEPT ![c] = "done"]
                      /\ UNCHANGED << c_ix, c_any_inexact, c_margin_factor,
                                      c_multiplier_factor >>
    /\ UNCHANGED << c_expected, c_actual, build_vars, scalar_vars, vector_vars,
                    assert_vars >>

\* caller c: the loop ran to its end
CallerFinish(c) ==
    /\ c_pc[c] = "loop"
    /\ c_ix[c] = Len(c_expected[c])
    /\ c_result' = [c_result EXCEPT ![c] = CallerLoopReturn(c)]
    /\ c_pc' = [c_pc EXCEPT ![c] = "done"]
    /\ UNCHANGED << c_expected, c_actual, c_ix, c_any_inexact, c_margin_factor,
                    c_multiplier_factor, sh_evaluator, sh_log,
                    build_vars, scalar_vars, vector_vars, assert_vars >>

CallersBegin == \E c \in Callers : CallerBegin(c)

CallersStep == \E c \in Callers : CallerStep(c)

CallersFinish == \E c \in Callers : CallerFinish(c)

SharedNext == CallersBegin \/ CallersStep \/ CallersFinish

SharedSpec == SharedInit /\ [][SharedNext]_vars

\* ------------------------------------------------------------------------
\* The assertion macros (AssertSpec)
\*
\* A test applies the scalar macros, or the vector macros, to one pair of
\* arguments, with an evaluator or without one. Each macro is invoked once;
\* a failed assertion unwinds its own invocation only, so the other macro
\* still runs. The scalar macros call evaluate in one step; the vector macros
\* call evaluate_vector_eq_approx, which runs as in Spec.

\* mod constants. 0.0001 and 0.000001 lie below the resolution of the
\* format: the constants are the format's values that keep
\* 0 < DEFAULT_MULTIPLIER < DEFAULT_MARGIN < 1
DEFAULT_MARGIN == Half

DEFAULT_MULTIPLIER == Quarter

\* slip: the two constants handed over in each other's place
DefaultEvaluator_Exchanged ==
    zero_margin_or_multiplier(DEFAULT_MARGIN, DEFAULT_MULTIPLIER)

\* the evaluator of the two-argument arms
DefaultEvaluator ==
    zero_margin_or_multiplier(DEFAULT_MULTIPLIER, DEFAULT_MARGIN)

\* the evaluator the three-argument arm works with
MacroEvaluator ==
    IF a_evaluator = NoEvaluator THEN DefaultEvaluator ELSE a_evaluator

ScalarMacros == { ScalarEq, ScalarNe }

VectorMacros == { VectorEq, VectorNe }

AssertLen == 2

AssertScalars ==
    { F64(NaN), F64(PosZero), F64(Quarter), F64(One), F64(Dyadic(5, 4)),
      I32(1), I32(-2) }

AssertVecElems == { I32(1), F64(Dyadic(5, 4)), F64(PosZero) }

ScalarMacroEvaluators ==
    { margin(Quarter), multiplier(Half), zero_margin_or_multiplier(Tiny, Quarter),
      margin(FNeg(Half)), CustomEvaluator }

VectorMacroEvaluators == { margin(Quarter), margin(FNeg(Half)), margin(NaN) }

\* what an implementor of the trait may answer for a pair: any
\* classification, with any of its factors present or absent
ImplementorOutcomes ==
    { << r, mf, uf >> : r \in ComparisonResult,
                        mf \in { None, Some(One) }, uf \in { None, Some(Tiny) } }

AssertInit ==
    /\ debug_assertions \in BOOLEAN
    /\ nan_equality \in BOOLEAN
    /\ IdleScalar
    /\ IdleVector
    /\ IdleShared
    /\ \/ /\ a_status = [m \in Macros |-> IF m \in ScalarMacros THEN "called" ELSE "idle"]
          /\ a_expected \in AssertScalars
          /\ a_actual \in AssertScalars
          /\ a_evaluator \in { NoEvaluator } \cup ScalarMacroEvaluators
          /\ a_answer \in IF a_evaluator = CustomEvaluator
                          THEN ImplementorOutcomes ELSE { << >> }
       \/ /\ nan_equality = FALSE
          /\ a_status = [m \in Macros |-> IF m \in VectorMacros THEN "called" ELSE "idle"]
          /\ a_expected \in SeqsUpTo(AssertVecElems, AssertLen)
          /\ a_actual \in SeqsUpTo(AssertVecElems, AssertLen)
          /\ a_evaluator \in { NoEvaluator } \cup VectorMacroEvaluators
          /\ a_answer = << >>
    /\ a_seen = [m \in Macros |-> << >>]
    /\ a_message = [m \in Macros |-> << >>]

\* evaluator.evaluate(expected, actual) on the two projections; a custom
\* evaluator answers the pair as its implementor decided
MacroEvaluate(exp_el, act_el, ev) ==
    IF ev.kind = "Custom" THEN a_answer
    ELSE evaluate(ev, testable_as_f64(exp_el), testable_as_f64(act_el))

\* A verdict is << status, message >>; a message is
\* << headline, the values it shows, margin_factor, multiplier_factor >>,
\* a factor being None where the message does not show it.
Passes == << "passed", << >> >>

Violation == << "violation", << "VIOLATION", << >>, None, None >> >>

\* the nested match on margin_factor and multiplier_factor
FactorArms(headline, shown, mf, uf) ==
    IF mf = None /\ uf = None THEN Violation
    ELSE << "failed", << headline, shown, mf, uf >> >>

\* `match comparison_result` of assert_scalar_eq_approx
assert_scalar_eq_approx_arms(exp_param, act_param, out) ==
    IF out[1] \in { "ExactlyEqual", "ApproximatelyEqual" } THEN Passes
    ELSE FactorArms("failed to verify approximate equality",
                    << exp_param, act_param >>, out[2], out[3])

\* slip: `CR::Unequal | CR::ApproximatelyEqual => ()`
assert_scalar_ne_approx_arms_Lenient(exp_param, act_param, out) ==
    IF out[1] \in { "Unequal", "ApproximatelyEqual" } THEN Passes
    ELSE FactorArms("failed to verify approximate inequality",
                    << exp_param, act_param >>, out[2], out[3])

\* `match comparison_result` of assert_scalar_ne_approx
assert_scalar_ne_approx_arms(exp_param, act_param, out) ==
    IF out[1] = "Unequal" THEN Passes
    ELSE FactorArms("failed to verify approximate inequality",
                    << exp_param, act_param >>, out[2], out[3])

\* `match comparison_result` of assert_vector_eq_approx
assert_vector_eq_approx_arms(res) ==
    CASE res[1].tag \in { "ExactlyEqual", "ApproximatelyEqual" } -> Passes
      [] res[1].tag = "DifferentLengths" ->
            << "failed",
               << "failed to verify approximate equality for vectors: lengths differ",
                  << res[1].expected_length, res[1].actual_length >>, None, None >> >>
      [] res[1].tag = "UnequalElements" ->
            FactorArms("failed to verify approximate equality for vectors: at index",
                       << res[1].index_of_first_unequal_element,
                          res[1].expected_value_of_first_unequal_element,
                          res[1].actual_value_of_first_unequal_element >>,
                       res[2], res[3])

\* slip: the innermost arm written as in the other three macros
assert_vector_ne_approx_arms_Violation(res) ==
    IF res[1].tag \in { "DifferentLengths", "UnequalElements" } THEN Passes
    ELSE FactorArms("failed to verify approximate inequality for vectors", << >>,
                    res[2], res[3])

\* `match comparison_result` of assert_vector_ne_approx: its innermost arm
\* is an assertion failure that shows no factor
assert_vector_ne_approx_arms(res) ==
    IF res[1].tag \in { "DifferentLengths", "UnequalElements" } THEN Passes
    ELSE << "failed",
            << "failed to verify approximate inequality for vectors", << >>,
               res[2], res[3] >> >>

\* an invocation of a scalar macro: evaluate, then the match
ScalarMacro(m, out, verdict) ==
    /\ a_status[m] = "called"
    /\ a_seen' = [a_seen EXCEPT ![m] = out]
    /\ IF Panicked(out)
       THEN /\ a_status' = [a_status EXCEPT ![m] = "panicked"]
            /\ UNCHANGED a_message
       ELSE /\ a_status' = [a_status EXCEPT ![m] = verdict[1]]
            /\ a_message' = [a_message EXCEPT ![m] = verdict[2]]
    /\ UNCHANGED << a_expected, a_actual, a_evaluator, a_answer, build_vars,
                    scalar_vars, vector_vars, shared_vars >>

assert_scalar_eq_approx ==
    /\ a_status[ScalarEq] = "called"
    /\ \E out \in { MacroEvaluate(a_expected, a_actual, MacroEvaluator) } :
          ScalarMacro(ScalarEq, out, assert_scalar_eq_approx_arms(a_expected, a_actual, out))

assert_scalar_ne_approx ==
    /\ a_status[ScalarNe] = "called"
    /\ \E out \in { MacroEvaluate(a_expected, a_actual, MacroEvaluator) } :
          ScalarMacro(ScalarNe, out, assert_scalar_ne_approx_arms(a_expected, a_actual, out))

\* a vector macro calls evaluate_vector_eq_approx(&expected, &actual, evaluator)
VectorMacroCall ==
    \E m \in VectorMacros :
        /\ a_status[m] = "called"
        /\ pc = "idle"
        /\ a_status' = [a_status EXCEPT ![m] = "evaluating"]
        /\ pc' = "start"
        /\ expected' = a_expected
        /\ actual' = a_actual
        /\ evaluator' = MacroEvaluator
        /\ ix' = 0
        /\ any_inexact' = FALSE
        /\ margin_factor' = None
        /\ multiplier_factor' = None
        /\ result' = << >>
        /\ calls' = << >>
        /\ UNCHANGED << a_expected, a_actual, a_evaluator, a_answer, a_seen, a_message,
                        build_vars, scalar_vars, shared_vars >>

\* the call is over: its frame is gone
VectorCallOver ==
    /\ pc' = "idle"
    /\ expected' = << >>
    /\ actual' = << >>
    /\ evaluator' = NoEvaluator
    /\ ix' = 0
    /\ any_inexact' = FALSE
    /\ margin_factor' = None
    /\ multiplier_factor' = None
    /\ result' = << >>
    /\ calls' = << >>

\* evaluate_vector_eq_approx returned to macro m: the match
VectorMacroReturn(m, verdict) ==
    /\ a_status[m] = "evaluating"
    /\ pc = "done"
    /\ a_seen' = [a_seen EXCEPT ![m] = result]
    /\ a_status' = [a_status EXCEPT ![m] = verdict[1]]
    /\ a_message' = [a_message EXCEPT ![m] = verdict[2]]
    /\ VectorCallOver
    /\ UNCHANGED << a_expected, a_actual, a_evaluator, a_answer, build_vars,
                    scalar_vars, shared_vars >>

assert_vector_eq_approx ==
    pc = "done" /\ VectorMacroReturn(VectorEq, assert_vector_eq_approx_arms(result))

assert_vector_ne_approx ==
    pc = "done" /\ VectorMacroReturn(VectorNe, assert_vector_ne_approx_arms(result))

\* the evaluator panicked inside evaluate_vector_eq_approx: the macro unwinds
VectorMacroUnwind ==
    \E m \in VectorMacros :
        /\ a_status[m] = "evaluating"
        /\ pc = "panicked"
        /\ a_status' = [a_status EXCEPT ![m] = "panicked"]
        /\ VectorCallOver
        /\ UNCHANGED << a_expected, a_actual, a_evaluator, a_answer, a_seen, a_message,
                        build_vars, scalar_vars, shared_vars >>

AssertNext ==
    \/ assert_scalar_eq_approx
    \/ assert_scalar_ne_approx
    \/ VectorMacroCall
    \/ Begin
    \/ Step
    \/ Finish
    \/ assert_vector_eq_approx
    \/ assert_vector_ne_approx
    \/ VectorMacroUnwind

AssertSpec == AssertInit /\ [][AssertNext]_vars

\* ------------------------------------------------------------------------
\* Properties of evaluate_vector_eq_approx (Spec)

Returned == pc = "done"

\* the classification the evaluator gave at its j-th invocation (1-based)
Classified(j) == calls[j].out[1]

\* the invocations classified ApproximatelyEqual
ApproxCalls == { j \in 1 .. Len(calls) : Classified(j) = "ApproximatelyEqual" }

\* the first of them
FirstApproxCall == CHOOSE j \in ApproxCalls : \A j2 \in ApproxCalls : j <= j2

\* the invocations went through the indices 0, 1, 2, ... in order
CallsInIndexOrder == \A j \in 1 .. Len(calls) : calls[j].ix = j - 1

\* what a stock evaluator answers for the pair at index i (0-based)
StockAnswer(i) ==
    evaluate(evaluator, testable_as_f64(expected[i + 1]), testable_as_f64(actual[i + 1]))

ExampleExpected == << I32(-2), F64(Dyadic(-5, 2)), F64(Dyadic(-7, 2)) >>

ExampleActual == << I32(-2), F64(Dyadic(-7, 2)), F64(Dyadic(-7, 2)) >>

ExampleEvaluator == zero_margin_or_multiplier(Tiny, Half)

\* C1: a result UnequalElements{i, e, a} names the lowest index whose pair
\* the evaluator classified Unequal: the evaluator was invoked on the indices
\* 0..i in order, answered ExactlyEqual or ApproximatelyEqual below i and
\* Unequal at i (for a stock evaluator: i is the least index whose pair it
\* classifies Unequal), and e, a are the f64 projections of expected[i] and
\* actual[i]. The stated instance in the reduced format: [-2, -2.5, -3.5]
\* against [-2, -3.5, -3.5] under zero_margin_or_multiplier(Tiny, 0.5) gives
\* index 1, expected -2.5, actual -3.5.
C1_FirstUnequalElement ==
    /\ (Returned /\ result[1].tag = "UnequalElements") =>
          LET i == result[1].index_of_first_unequal_element
          IN  /\ i \in 0 .. Len(expected) - 1
              /\ Len(calls) = i + 1
              /\ CallsInIndexOrder
              /\ Classified(i + 1) = "Unequal"
              /\ \A j \in 1 .. i : Classified(j) \in {"ExactlyEqual", "ApproximatelyEqual"}
              /\ evaluator.kind # "Custom" =>
                    /\ StockAnswer(i)[1] = "Unequal"
                    /\ \A j \in 0 .. i - 1 : StockAnswer(j)[1] # "Unequal"
              /\ result[1].expected_value_of_first_unequal_element
                    = testable_as_f64(expected[i + 1])
              /\ result[1].actual_value_of_first_unequal_element
                    = testable_as_f64(actual[i + 1])
    /\ (Returned /\ expected = ExampleExpected /\ actual = ExampleActual
                 /\ evaluator = ExampleEvaluator) =>
          result[1] = UnequalElements(1, Dyadic(-5, 2), Dyadic(-7, 2))

C1_Witness ==
    /\ Returned
    /\ expected = ExampleExpected
    /\ actual = ExampleActual
    /\ evaluator = ExampleEvaluator
    /\ result[1].tag = "UnequalElements"
    /\ result[1].index_of_first_unequal_element = 1

\* C2: sequences of different lengths give DifferentLengths with the two
\* lengths, no factors, and no invocation of the evaluator, whatever the
\* elements and the evaluator; the call cannot end any other way.
C2_DifferentLengths ==
    Len(expected) # Len(actual) =>
        /\ pc \in {"start", "done"}
        /\ calls = << >>
        /\ Returned =>
              /\ result[1].tag = "DifferentLengths"
              /\ result[1].expected_length = Len(expected)
              /\ result[1].actual_length = Len(actual)
              /\ result[2] = None
              /\ result[3] = None

C2_Witness ==
    /\ Returned
    /\ Len(expected) = 2
    /\ Len(actual) = 1
    /\ debug_assertions
    /\ evaluator = margin(FNeg(Half))
    /\ result[1] = DifferentLengths(2, 1)

\* C3: the factors recorded by the loop, and returned with
\* ApproximatelyEqual, are those of the first invocation classified
\* ApproximatelyEqual: ExactlyEqual elements leave them alone and later
\* ApproximatelyEqual elements do not overwrite them.
C3_FirstInexactFactors ==
    /\ pc \in {"loop", "done", "panicked"} =>
          IF ApproxCalls = {}
          THEN /\ ~any_inexact
               /\ margin_factor = None
               /\ multiplier_factor = None
          ELSE /\ any_inexact
               /\ margin_factor = calls[FirstApproxCall].out[2]
               /\ multiplier_factor = calls[FirstApproxCall].out[3]
    /\ (Returned /\ result[1].tag = "ApproximatelyEqual") =>
          /\ ApproxCalls # {}
          /\ result[2] = calls[FirstApproxCall].out[2]
          /\ result[3] = calls[FirstApproxCall].out[3]

C3_Witness ==
    /\ Returned
    /\ result[1].tag = "ApproximatelyEqual"
    /\ Len(calls) = 3
    /\ Classified(1) = "ExactlyEqual"
    /\ Classified(2) = "ApproximatelyEqual"
    /\ Classified(3) = "ApproximatelyEqual"
    /\ calls[2].out[2] # calls[3].out[2]
    /\ result[2] = calls[2].out[2]

\* C4: the factors returned with UnequalElements are those the evaluator
\* returned for the unequal element itself, not those recorded from an
\* earlier ApproximatelyEqual element.
C4_UnequalElementFactors ==
    (Returned /\ result[1].tag = "UnequalElements") =>
        /\ Len(calls) >= 1
        /\ result[2] = calls[Len(calls)].out[2]
        /\ result[3] = calls[Len(calls)].out[3]

C4_Witness ==
    /\ Returned
    /\ result[1].tag = "UnequalElements"
    /\ Len(calls) = 2
    /\ Classified(1) = "ApproximatelyEqual"
    /\ calls[1].out[2] # calls[2].out[2]
    /\ margin_factor = calls[1].out[2]
    /\ result[2] = calls[2].out[2]

\* C5: for sequences of equal length none of whose pairs is classified
\* Unequal the call returns after invoking the evaluator on every index;
\* it returns ExactlyEqual, with no factors, exactly when every pair was
\* classified ExactlyEqual, and ApproximatelyEqual exactly when some pair was
\* classified ApproximatelyEqual. Two empty sequences give ExactlyEqual with
\* no factors.
C5_PassingResult ==
    /\ (Returned /\ Len(expected) = Len(actual)
                 /\ \A j \in 1 .. Len(calls) : Classified(j) # "Unequal") =>
          /\ Len(calls) = Len(expected)
          /\ result[1].tag \in {"ExactlyEqual", "ApproximatelyEqual"}
          /\ result[1].tag = "ExactlyEqual" <=>
                \A j \in 1 .. Len(calls) : Classified(j) = "ExactlyEqual"
          /\ result[1].tag = "ApproximatelyEqual" <=>
                \E j \in 1 .. Len(calls) : Classified(j) = "ApproximatelyEqual"
          /\ result[1].tag = "ExactlyEqual" => (result[2] = None /\ result[3] = None)
    /\ (Returned /\ expected = << >> /\ actual = << >>) =>
          result = << VExactlyEqual, None, None >>

C5_Witness ==
    /\ Returned
    /\ Len(expected) = 2
    /\ evaluator = margin(Half)
    /\ \A j \in 1 .. Len(calls) : Classified(j) = "ExactlyEqual"
    /\ result = << VExactlyEqual, None, None >>

\* the call is over: it returned, or the evaluator's panic unwound it
Ended == pc \in {"done", "panicked"}

\* C18: every call of evaluate_vector_eq_approx ends: it returns unless an
\* invocation of the evaluator panicked; by then the evaluator has been
\* invoked at most Len(expected) times, and not at all when the lengths
\* differ.
C18_Terminates ==
    /\ <>Ended
    /\ [](/\ Len(calls) <= Len(expected)
          /\ Len(expected) # Len(actual) => calls = << >>
          /\ pc = "panicked" => (calls # << >> /\ Classified(Len(calls)) = "Panic"))

C18_Witness ==
    /\ Returned
    /\ evaluator = CustomEvaluator
    /\ Len(expected) = MaxLen
    /\ Len(calls) = MaxLen
    /\ \A j \in 1 .. Len(calls) : Classified(j) = "ExactlyEqual"

\* the invocations classified Unequal
UnequalCalls == { j \in 1 .. Len(calls) : Classified(j) = "Unequal" }

\* no invocation follows one that was classified Unequal or that panicked
LastCallStops ==
    \A j \in 1 .. Len(calls) - 1 : Classified(j) \in { "ExactlyEqual", "ApproximatelyEqual" }

\* a step that invokes the evaluator does so once, on the index after the
\* last one invoked
OneInvocationInOrder ==
    calls' # calls =>
        /\ Len(calls') = Len(calls) + 1
        /\ SubSeq(calls', 1, Len(calls)) = calls
        /\ calls'[Len(calls')].ix = Len(calls)

\* C22, as stated: for sequences of one length the evaluator is invoked on
\* the indices 0, 1, 2, ... in order, once each, never after an index
\* classified Unequal, and by the end of the call first_unequal_index + 1
\* times if a pair was classified Unequal, Len(expected) times otherwise.
C22_AsClaimed ==
    Len(expected) = Len(actual) =>
        /\ CallsInIndexOrder
        /\ LastCallStops
        /\ Ended =>
              Len(calls) = IF UnequalCalls # { }
                           THEN (CHOOSE j \in UnequalCalls : TRUE)
                           ELSE Len(expected)

\* C22: for sequences of one length the evaluator is invoked on the indices
\* 0, 1, 2, ... in order, one index per invocation, never after an index
\* classified Unequal; a call that returns has made first_unequal_index + 1
\* invocations if a pair was classified Unequal and Len(expected) otherwise;
\* a call whose evaluator panics has made its last invocation at the index
\* of the panic.
C22_AscendingOrder ==
    /\ [](Len(expected) = Len(actual) =>
            /\ CallsInIndexOrder
            /\ LastCallStops
            /\ Returned =>
                  /\ UnequalCalls \in { { }, { Len(calls) } }
                  /\ UnequalCalls = { } => Len(calls) = Len(expected)
                  /\ UnequalCalls # { } =>
                        /\ result[1].tag = "UnequalElements"
                        /\ Len(calls) = result[1].index_of_first_unequal_element + 1
            /\ pc = "panicked" =>
                  /\ UnequalCalls = { }
                  /\ Classified(Len(calls)) = "Panic")
    /\ [][OneInvocationInOrder]_vars

\* three pairs, the second classified Unequal: two invocations were made
C22_Witness ==
    /\ Returned
    /\ Len(expected) = 3
    /\ Len(actual) = 3
    /\ Len(calls) = 2
    /\ Classified(1) = "ApproximatelyEqual"
    /\ Classified(2) = "Unequal"
    /\ result[1].tag = "UnequalElements"
    /\ result[1].index_of_first_unequal_element = 1

\* what evaluate_scalar_eq_approx returns for the pair at index i (0-based):
\* a stock evaluator's answer, or the answer the implementor gave when it
\* was invoked on that index
ScalarResult(i) ==
    IF evaluator.kind = "Custom" THEN calls[i + 1].out ELSE StockAnswer(i)

\* evaluate_scalar_eq_approx returns ExactlyEqual or ApproximatelyEqual for
\* the pair at every index
NoElementUnequal ==
    IF evaluator.kind = "Custom"
    THEN /\ Len(calls) = Len(expected)
         /\ \A j \in 1 .. Len(calls) :
               Classified(j) \in { "ExactlyEqual", "ApproximatelyEqual" }
    ELSE \A i \in 0 .. Len(expected) - 1 :
               StockAnswer(i)[1] \in { "ExactlyEqual", "ApproximatelyEqual" }

\* the result of the call for one-element sequences, from the scalar result
SingleElementResult(sc) ==
    CASE sc[1] = "ExactlyEqual" -> << VExactlyEqual, None, None >>
      [] sc[1] = "ApproximatelyEqual" -> << VApproximatelyEqual, sc[2], sc[3] >>
      [] sc[1] = "Unequal" ->
            << UnequalElements(0, testable_as_f64(expected[1]),
                               testable_as_f64(actual[1])),
               sc[2], sc[3] >>

\* C26: for sequences of one length the call returns ExactlyEqual or
\* ApproximatelyEqual exactly if evaluate_scalar_eq_approx returns
\* ExactlyEqual or ApproximatelyEqual for the pair at every index; for
\* one-element sequences its result is ExactlyEqual with no factors,
\* ApproximatelyEqual with the scalar factors, or UnequalElements{0, e, a}
\* with the scalar factors, as the scalar result is.
C26_ScalarRefinement ==
    (Ended /\ Len(expected) = Len(actual)) =>
        /\ (Returned /\ result[1].tag \in { "ExactlyEqual", "ApproximatelyEqual" })
              <=> NoElementUnequal
        /\ (Returned /\ Len(expected) = 1) => result = SingleElementResult(ScalarResult(0))

\* a one-element call under a stock evaluator returned ApproximatelyEqual
\* with the factor the scalar evaluation reports
C26_Witness ==
    /\ Returned
    /\ Len(expected) = 1
    /\ Len(actual) = 1
    /\ evaluator.kind = "MarginEvaluator"
    /\ StockAnswer(0)[1] = "ApproximatelyEqual"
    /\ result = << VApproximatelyEqual, Some(evaluator.factor), None >>

\* ------------------------------------------------------------------------
\* Properties of concurrent calls (SharedSpec)

\* what the shared evaluator answers for caller c's i-th pair (1-based)
AloneAnswer(c, i) ==
    evaluate(sh_evaluator, testable_as_f64(c_expected[c][i]),
             testable_as_f64(c_actual[c][i]))

\* the pairs at which a call of caller c on its own would leave the loop
AloneStops(c) ==
    { i \in 1 .. Len(c_expected[c]) : AloneAnswer(c, i)[1] \in {"Unequal", "Panic"} }

AloneFirstStop(c) == CHOOSE i \in AloneStops(c) : \A j \in AloneStops(c) : i <= j

\* the locals of a call of caller c on its own after its first k pairs
AloneLocals(c, k) ==
    LET approx == { i \in 1 .. k : AloneAnswer(c, i)[1] = "ApproximatelyEqual" }
        first == CHOOSE i \in approx : \A j \in approx : i <= j
    IN  IF approx = { }
        THEN << FALSE, None, None >>
        ELSE << TRUE, AloneAnswer(c, first)[2], AloneAnswer(c, first)[3] >>

\* a call of caller c on its own ends in the evaluator's panic
AlonePanics(c) ==
    /\ Len(c_expected[c]) = Len(c_actual[c])
    /\ AloneStops(c) # { }
    /\ AloneAnswer(c, AloneFirstStop(c))[1] = "Panic"

\* the triple a call of caller c on its own returns
AloneResult(c) ==
    IF Len(c_expected[c]) # Len(c_actual[c])
    THEN << DifferentLengths(Len(c_expected[c]), Len(c_actual[c])), None, None >>
    ELSE IF AloneStops(c) # { }
    THEN LET i == AloneFirstStop(c)
         IN  << UnequalElements(i - 1, testable_as_f64(c_expected[c][i]),
                                testable_as_f64(c_actual[c][i])),
                AloneAnswer(c, i)[2], AloneAnswer(c, i)[3] >>
    ELSE LET l == AloneLocals(c, Len(c_expected[c]))
         IN  << IF l[1] THEN VApproximatelyEqual ELSE VExactlyEqual, l[2], l[3] >>

CallerEnded(c) == c_pc[c] \in {"done", "panicked"}

\* a scalar evaluation answered the same whenever it was made
LogFunctional ==
    \A x \in sh_log, y \in sh_log : (x[1] = y[1] /\ x[2] = y[2]) => x = y

\* two calls on the same sequences ended the same way
SameInputsSameResult ==
    \A c \in Callers, d \in Callers :
        (CallerEnded(c) /\ CallerEnded(d) /\ c_expected[c] = c_expected[d]
                        /\ c_actual[c] = c_actual[d]) =>
            (c_pc[c] = c_pc[d] /\ c_result[c] = c_result[d])

C17_Isolation ==
    \A c \in Callers :
        /\ c_pc[c] = "loop" =>
              /\ \A i \in 1 .. c_ix[c] : i \notin AloneStops(c)
              /\ << c_any_inexact[c], c_margin_factor[c], c_multiplier_factor[c] >>
                    = AloneLocals(c, c_ix[c])
        /\ c_pc[c] = "done" => (~AlonePanics(c) /\ c_result[c] = AloneResult(c))
        /\ c_pc[c] = "panicked" => AlonePanics(c)

C17_Witness ==
    /\ sh_evaluator = margin(Half)
    /\ c_pc[1] = "done"
    /\ c_pc[2] = "loop"
    /\ c_ix[2] = 1
    /\ c_actual[1] = << F64(Dyadic(-5, 2)), I32(-2) >>
    /\ c_actual[2] = << I32(-2), F64(Dyadic(-5, 2)) >>
    /\ Len(c_expected[1]) = 2
    /\ Len(c_expected[2]) = 2
    /\ c_result[1] = << VApproximatelyEqual, Some(Half), None >>
    /\ ~c_any_inexact[2]

\* ------------------------------------------------------------------------
\* Properties of the comparison primitives (ScalarSpec)

ScalarReturned == s_pc = "returned"

IsMargin == s_evaluator.kind = "MarginEvaluator"

IsMultiplier == s_evaluator.kind = "MultiplierEvaluator"

IsZeroMarginOrMultiplier == s_evaluator.kind = "ZeroMarginOrMultiplierEvaluator"

\* factor >= 0.0, factor > 0.0, factor == 0.0
NonNegative(f) == FLe(PosZero, f)

Positive(f) == FLe(PosZero, f) /\ ~FEq(PosZero, f)

ZeroFactor(f) == FEq(PosZero, f)

\* both comparands NaN in a build with the feature "nan-equality"
NaNPairInMode == nan_equality /\ is_nan(s_expected) /\ is_nan(s_actual)

\* expected != actual
Differ == ~FEq(s_expected, s_actual)

\* lo <= actual <= hi
Within(lo, hi) == FLe(lo, s_actual) /\ FLe(s_actual, hi)

\* the classification of the margin rule, as the claim states it
MarginRule(f) ==
    IF Within(FSub(s_expected, f), FAdd(s_expected, f))
    THEN "ApproximatelyEqual"
    ELSE "Unequal"

\* actual is exactly f away from expected, as numbers
ExactlyAway(f) ==
    /\ s_expected.cls = "fin"
    /\ s_actual.cls = "fin"
    /\ f.cls = "fin"
    /\ \/ Ord(s_actual) = Ord(s_expected) + Ord(f)
       \/ Ord(s_actual) = Ord(s_expected) - Ord(f)

\* C6 as claimed: for all expected != actual and every margin_factor > 0 the
\* margin primitive returns ApproximatelyEqual if
\* expected - margin_factor <= actual <= expected + margin_factor, and
\* Unequal otherwise.
C6_AsClaimed ==
    (ScalarReturned /\ IsMargin /\ Differ /\ Positive(s_evaluator.factor)) =>
        s_out[1] = MarginRule(s_evaluator.factor)

\* C6: for all expected != actual, other than two NaN in a build with
\* nan-equality, and every margin_factor > 0, the margin primitive returns
\* ApproximatelyEqual if expected - margin_factor <= actual <=
\* expected + margin_factor (the two ends as f64 computes them), and Unequal
\* otherwise; an actual exactly margin_factor away is ApproximatelyEqual.
C6_MarginInclusive ==
    (s_pc # "ready" /\ IsMargin /\ Differ /\ ~NaNPairInMode
                    /\ Positive(s_evaluator.factor)) =>
        /\ ScalarReturned
        /\ s_out[1] = MarginRule(s_evaluator.factor)
        /\ ExactlyAway(s_evaluator.factor) => s_out[1] = "ApproximatelyEqual"

C6_Witness ==
    /\ ScalarReturned
    /\ IsMargin
    /\ s_evaluator.factor = Half
    /\ s_expected = One
    /\ s_actual = Half
    /\ s_out[1] = "ApproximatelyEqual"

\* the two ends of the multiplier rule
MultiplierLo(f) == FMul(s_expected, FSub(One, f))

MultiplierHi(f) == FMul(s_expected, FAdd(One, f))

\* the classification of the multiplier rule, as the claim states it:
\* actual between the two ends, whichever of them is the lower
MultiplierRule(f) ==
    IF \/ Within(MultiplierLo(f), MultiplierHi(f))
       \/ Within(MultiplierHi(f), MultiplierLo(f))
    THEN "ApproximatelyEqual"
    ELSE "Unequal"

\* C7 as claimed: for all expected != actual and every multiplier_factor > 0
\* the multiplier primitive returns ApproximatelyEqual if actual lies between
\* expected*(1 - multiplier_factor) and expected*(1 + multiplier_factor), in
\* either order, and Unequal otherwise.
C7_AsClaimed ==
    (ScalarReturned /\ IsMultiplier /\ Differ /\ Positive(s_evaluator.factor)) =>
        s_out[1] = MultiplierRule(s_evaluator.factor)

\* C7: for all expected != actual, other than two NaN in a build with
\* nan-equality, and every multiplier_factor > 0, the multiplier primitive
\* returns ApproximatelyEqual if actual lies between
\* expected*(1 - multiplier_factor) and expected*(1 + multiplier_factor), in
\* either order, and Unequal otherwise; the pair (-expected, -actual) is
\* classified as (expected, actual) is.
C7_MultiplierInterval ==
    (s_pc # "ready" /\ IsMultiplier /\ Differ /\ ~NaNPairInMode
                    /\ Positive(s_evaluator.factor)) =>
        /\ ScalarReturned
        /\ s_out[1] = MultiplierRule(s_evaluator.factor)
        /\ s_out[1] = compare_approximate_equality_by_multiplier(
                          FNeg(s_expected), FNeg(s_actual), s_evaluator.factor)

C7_Witness ==
    /\ ScalarReturned
    /\ IsMultiplier
    /\ s_evaluator.factor = Half
    /\ s_expected = Dyadic(-2, 1)
    /\ s_actual = Dyadic(-5, 2)
    /\ ~FLe(MultiplierLo(Half), MultiplierHi(Half))
    /\ s_out[1] = "ApproximatelyEqual"

EitherZero == FEq(PosZero, s_expected) \/ FEq(PosZero, s_actual)

\* C8: with non-negative factors the zero-margin-or-multiplier primitive
\* classifies as the margin primitive does with margin_factor when expected
\* or actual is zero, and as the multiplier primitive does with
\* multiplier_factor otherwise; (0, 0.5) is ApproximatelyEqual with a margin
\* of 0.5 and Unequal with a margin of 0.25, whatever the multiplier.
C8_ZeroMarginOrMultiplier ==
    (s_pc # "ready" /\ IsZeroMarginOrMultiplier
                    /\ NonNegative(s_evaluator.multiplier_factor)
                    /\ NonNegative(s_evaluator.zero_margin_factor)) =>
        /\ ScalarReturned
        /\ s_out[1] =
              IF EitherZero
              THEN compare_approximate_equality_by_margin(
                       s_expected, s_actual, s_evaluator.zero_margin_factor)
              ELSE compare_approximate_equality_by_multiplier(
                       s_expected, s_actual, s_evaluator.multiplier_factor)
        /\ (s_expected = PosZero /\ s_actual = Half) =>
              /\ s_evaluator.zero_margin_factor = Half => s_out[1] = "ApproximatelyEqual"
              /\ s_evaluator.zero_margin_factor = Quarter => s_out[1] = "Unequal"

C8_Witness ==
    /\ ScalarReturned
    /\ IsZeroMarginOrMultiplier
    /\ s_expected = Quarter
    /\ s_actual = PosZero
    /\ s_evaluator.multiplier_factor = Quarter
    /\ s_evaluator.zero_margin_factor = Half
    /\ s_out[1] = "ApproximatelyEqual"

\* the factors the called evaluator holds are all non-negative
FactorsNonNegative ==
    /\ NonNegative(s_evaluator.factor)
    /\ NonNegative(s_evaluator.multiplier_factor)
    /\ NonNegative(s_evaluator.zero_margin_factor)

\* C9: each primitive returns ExactlyEqual for (x, x), x not NaN, and for
\* (-0.0, 0.0), with any non-negative factor, zero included; and it returns
\* ExactlyEqual only when expected == actual or, in a build with
\* nan-equality, both are NaN.
C9_Reflexive ==
    /\ (s_pc # "ready" /\ FEq(s_expected, s_actual) /\ FactorsNonNegative) =>
          (ScalarReturned /\ s_out[1] = "ExactlyEqual")
    /\ (ScalarReturned /\ s_out[1] = "ExactlyEqual") =>
          (FEq(s_expected, s_actual) \/ NaNPairInMode)

C9_Witness ==
    /\ ScalarReturned
    /\ IsMargin
    /\ s_evaluator.factor = PosZero
    /\ s_expected = NegZero
    /\ s_actual = PosZero
    /\ s_out[1] = "ExactlyEqual"

\* the factor of the rule that applies to the pair is zero
ApplicableFactorZero ==
    \/ (IsMargin \/ IsMultiplier) /\ ZeroFactor(s_evaluator.factor)
    \/ IsZeroMarginOrMultiplier /\ EitherZero /\ ZeroFactor(s_evaluator.zero_margin_factor)
    \/ IsZeroMarginOrMultiplier /\ ~EitherZero /\ ZeroFactor(s_evaluator.multiplier_factor)

\* C10 as claimed: for all x != y the margin and the multiplier primitive
\* return Unequal with a factor of 0.0, and no call whose applicable factor
\* is zero returns ApproximatelyEqual.
C10_AsClaimed ==
    /\ (ScalarReturned /\ (IsMargin \/ IsMultiplier) /\ Differ
                       /\ ZeroFactor(s_evaluator.factor)) =>
          s_out[1] = "Unequal"
    /\ (ScalarReturned /\ ApplicableFactorZero) => s_out[1] # "ApproximatelyEqual"

\* C10: for all x != y, other than two NaN in a build with nan-equality, the
\* margin and the multiplier primitive return Unequal with a factor of 0.0,
\* and no call whose applicable factor is zero returns ApproximatelyEqual.
C10_ZeroTolerance ==
    /\ (s_pc # "ready" /\ (IsMargin \/ IsMultiplier) /\ Differ /\ ~NaNPairInMode
                       /\ ZeroFactor(s_evaluator.factor)) =>
          (ScalarReturned /\ s_out[1] = "Unequal")
    /\ (ScalarReturned /\ ApplicableFactorZero) => s_out[1] # "ApproximatelyEqual"

C10_Witness ==
    /\ ScalarReturned
    /\ IsMultiplier
    /\ s_evaluator.factor = PosZero
    /\ s_expected = Fin(0, MaxMag)
    /\ s_actual = Fin(0, MaxMag - (2 ^ EMax))
    /\ s_out[1] = "Unequal"

\* the stated pair in the reduced format: expected 1.0 and actual 1.0 + f
\* under the multiplier factor f, for every f > 0 with 1.0 + f != 1.0 (the
\* source's 1.001 and 0.001 are not values of the format)
StatedPair ==
    /\ IsMultiplier
    /\ Positive(s_evaluator.factor)
    /\ s_expected = One
    /\ s_actual = FAdd(One, s_evaluator.factor)
    /\ Differ

\* the classification of the same pair with the comparands exchanged
Exchanged ==
    compare_approximate_equality_by_multiplier(s_actual, s_expected, s_evaluator.factor)

\* C11 as claimed: by_multiplier(1.0, 1.0 + f, f) and
\* by_multiplier(1.0 + f, 1.0, f) return different classifications.
C11_AsClaimed ==
    (ScalarReturned /\ StatedPair) => s_out[1] # Exchanged

\* C11: the multiplier strategy is not symmetric in its comparands:
\* by_multiplier(1.0, 0.5, 0.5) is ApproximatelyEqual and
\* by_multiplier(0.5, 1.0, 0.5) is Unequal; for the stated pair, though,
\* by_multiplier(1.0, 1.0 + f, f) and by_multiplier(1.0 + f, 1.0, f) are both
\* ApproximatelyEqual.
C11_MultiplierAsymmetry ==
    /\ (ScalarReturned /\ IsMultiplier /\ s_evaluator.factor = Half
                       /\ s_expected = One /\ s_actual = Half) =>
          (s_out[1] = "ApproximatelyEqual" /\ Exchanged = "Unequal")
    /\ (s_pc # "ready" /\ StatedPair) =>
          /\ ScalarReturned
          /\ s_out[1] = "ApproximatelyEqual"
          /\ Exchanged = "ApproximatelyEqual"

C11_Witness ==
    /\ ScalarReturned
    /\ IsMultiplier
    /\ s_evaluator.factor = Half
    /\ s_expected = One
    /\ s_actual = Half
    /\ s_out[1] = "ApproximatelyEqual"
    /\ Exchanged = "Unequal"

\* C12: whenever a stock evaluator's evaluate returns, the one built by
\* margin(f) returns (result, Some(f), None), the one built by multiplier(f)
\* returns (result, None, Some(f)) and the one built by
\* zero_margin_or_multiplier(m, z) returns (result, Some(z), Some(m)), where
\* result is the classification of the corresponding primitive; no stock
\* evaluator returns None for both factors.
C12_ReportedFactors ==
    ScalarReturned =>
        /\ \A f \in ScalarFactors :
              /\ s_evaluator = margin(f) =>
                    s_out = << compare_approximate_equality_by_margin(
                                   s_expected, s_actual, f), Some(f), None >>
              /\ s_evaluator = multiplier(f) =>
                    s_out = << compare_approximate_equality_by_multiplier(
                                   s_expected, s_actual, f), None, Some(f) >>
        /\ \A m \in ZeroMarginFactors, z \in ZeroMarginFactors :
              s_evaluator = zero_margin_or_multiplier(m, z) =>
                 s_out = << compare_approximate_equality_by_zero_margin_or_multiplier(
                                s_expected, s_actual, m, z), Some(z), Some(m) >>
        /\ s_out[1] \in ComparisonResult
        /\ ~(s_out[2] = None /\ s_out[3] = None)

C12_Witness ==
    /\ ScalarReturned
    /\ s_evaluator = zero_margin_or_multiplier(Quarter, Half)
    /\ s_expected = One
    /\ s_actual = Dyadic(2, 1)
    /\ s_out = << "Unequal", Some(Half), Some(Quarter) >>

BothNaN == is_nan(s_expected) /\ is_nan(s_actual)

\* actual between a and b, whichever of them is the lower
Between(a, b) == Within(a, b) \/ Within(b, a)

\* the classification of a pair as the rules give it without the mode:
\* equal comparands, else a zero factor, else the interval of the rule
ModeFreeClassification ==
    LET byMargin(f) ==
            IF ZeroFactor(f) THEN "Unequal"
            ELSE IF Between(FSub(s_expected, f), FAdd(s_expected, f))
            THEN "ApproximatelyEqual" ELSE "Unequal"
        byMultiplier(f) ==
            IF ZeroFactor(f) THEN "Unequal"
            ELSE IF Between(MultiplierLo(f), MultiplierHi(f))
            THEN "ApproximatelyEqual" ELSE "Unequal"
    IN  IF FEq(s_expected, s_actual) THEN "ExactlyEqual"
        ELSE IF IsMargin THEN byMargin(s_evaluator.factor)
        ELSE IF IsMultiplier THEN byMultiplier(s_evaluator.factor)
        ELSE IF EitherZero THEN byMargin(s_evaluator.zero_margin_factor)
        ELSE byMultiplier(s_evaluator.multiplier_factor)

\* C13: each primitive, with non-negative factors, classifies (NaN, NaN) as
\* Unequal in a build without nan-equality and as ExactlyEqual in a build
\* with it; for a pair of which at most one value is NaN the classification,
\* and whether the call returns at all, is the same in both builds.
C13_NaNHandling ==
    /\ (s_pc # "ready" /\ BothNaN /\ FactorsNonNegative) =>
          /\ ScalarReturned
          /\ s_out[1] = IF nan_equality THEN "ExactlyEqual" ELSE "Unequal"
    /\ (ScalarReturned /\ ~BothNaN) => s_out[1] = ModeFreeClassification
    /\ s_pc = "panicked" <=> (s_pc # "ready" /\ debug_assertions /\ ~FactorsNonNegative)

C13_Witness ==
    /\ ScalarReturned
    /\ nan_equality
    /\ IsMultiplier
    /\ s_evaluator.factor = Inf(0)
    /\ is_nan(s_expected)
    /\ s_actual = One
    /\ s_out[1] = "Unequal"

\* C14: for every expected and actual of the format (finite, +0, -0,
\* +infinity, -infinity, NaN) and non-negative factors each primitive
\* returns one of ExactlyEqual, ApproximatelyEqual, Unequal: no such call
\* panics, in a debug build or otherwise.
C14_NeverPanics ==
    (s_pc # "ready" /\ FactorsNonNegative) =>
        /\ ScalarReturned
        /\ s_out[1] \in ComparisonResult

C14_Witness ==
    /\ ScalarReturned
    /\ debug_assertions
    /\ IsZeroMarginOrMultiplier
    /\ s_evaluator.multiplier_factor = PosZero
    /\ s_evaluator.zero_margin_factor = PosZero
    /\ s_expected = Inf(1)
    /\ is_nan(s_actual)
    /\ s_out[1] = "Unequal"

\* factor < 0.0
Negative(f) == FLe(f, PosZero) /\ ~FEq(f, PosZero)

\* the evaluator was constructed with a negative factor
HoldsNegativeFactor ==
    \/ Negative(s_evaluator.factor)
    \/ Negative(s_evaluator.multiplier_factor)
    \/ Negative(s_evaluator.zero_margin_factor)

\* C15: the constructors build an evaluator from a negative factor as from
\* any other; in a debug build its evaluate panics and returns nothing,
\* whatever the comparands (equal ones included), and that of
\* zero_margin_or_multiplier does so when either factor is negative,
\* whichever rule applies to the pair.
C15_NegativeFactor ==
    /\ \A f \in ScalarFactors :
          (margin(f).factor = f /\ multiplier(f).factor = f)
    /\ \A m \in ZeroMarginFactors, z \in ZeroMarginFactors :
          /\ zero_margin_or_multiplier(m, z).multiplier_factor = m
          /\ zero_margin_or_multiplier(m, z).zero_margin_factor = z
    /\ (s_pc # "ready" /\ debug_assertions /\ HoldsNegativeFactor) =>
          (s_pc = "panicked" /\ s_out = << >>)

C15_Witness ==
    /\ s_pc = "panicked"
    /\ debug_assertions
    /\ IsZeroMarginOrMultiplier
    /\ s_evaluator.multiplier_factor = FNeg(Half)
    /\ s_evaluator.zero_margin_factor = Half
    /\ s_expected = PosZero
    /\ s_actual = PosZero

\* expected is zero and actual != 0.0 (a NaN actual included)
ZeroAgainstNonZero == FEq(PosZero, s_expected) /\ ~FEq(PosZero, s_actual)

\* |x|
FAbs(x) == IF is_nan(x) THEN x ELSE [x EXCEPT !.sign = 0]

\* the margin m reaches |actual|
Reaches(m) == FLe(FAbs(s_actual), m)

\* C23: with an expected of zero, an actual != 0.0 and non-negative
\* factors, the multiplier primitive returns Unequal whatever its factor,
\* while the margin primitive and the zero-margin-or-multiplier primitive
\* return ApproximatelyEqual as soon as the margin is at least |actual|.
C23_MultiplierAtZero ==
    (s_pc # "ready" /\ ZeroAgainstNonZero /\ FactorsNonNegative) =>
        /\ ScalarReturned
        /\ IsMultiplier => s_out[1] = "Unequal"
        /\ (IsMargin /\ Reaches(s_evaluator.factor)) =>
              s_out[1] = "ApproximatelyEqual"
        /\ (IsZeroMarginOrMultiplier /\ Reaches(s_evaluator.zero_margin_factor)) =>
              s_out[1] = "ApproximatelyEqual"

\* multiplier(1.0) was asked about (0.0, 0.5) and answered Unequal
C23_Witness ==
    /\ ScalarReturned
    /\ IsMultiplier
    /\ s_evaluator.factor = One
    /\ s_expected = PosZero
    /\ s_actual = Half
    /\ s_out[1] = "Unequal"

\* the margin primitive with the comparands exchanged
MarginExchanged ==
    compare_approximate_equality_by_margin(s_actual, s_expected, s_evaluator.factor)

\* the zero-margin-or-multiplier primitive with the comparands exchanged
ZeroMarginOrMultiplierExchanged ==
    compare_approximate_equality_by_zero_margin_or_multiplier(
        s_actual, s_expected, s_evaluator.multiplier_factor,
        s_evaluator.zero_margin_factor)

\* x + f and x - f are the exact sum and difference: nothing is rounded and
\* nothing overflows (f finite; an infinite or NaN x is left as it is)
EndpointsExact(x, f) ==
    /\ f.cls = "fin"
    /\ x.cls = "fin" =>
          /\ FAdd(x, f).cls = "fin"
          /\ Ord(FAdd(x, f)) = Ord(x) + Ord(f)
          /\ FSub(x, f).cls = "fin"
          /\ Ord(FSub(x, f)) = Ord(x) - Ord(f)

\* one comparand is zero and the other one, like the margin, is infinite
InfiniteAgainstZero ==
    /\ s_evaluator.zero_margin_factor.cls = "inf"
    /\ s_expected.cls = "inf" \/ s_actual.cls = "inf"

\* C24, as stated: with a non-negative factor the margin primitive gives
\* (x, y) and (y, x) the same classification, and so does the
\* zero-margin-or-multiplier primitive when x or y is zero.
C24_AsClaimed ==
    (ScalarReturned /\ FactorsNonNegative) =>
        /\ IsMargin => s_out[1] = MarginExchanged
        /\ (IsZeroMarginOrMultiplier /\ EitherZero) =>
              s_out[1] = ZeroMarginOrMultiplierExchanged

\* C24: with a non-negative factor f the margin primitive gives (x, y) and
\* (y, x) the same classification whenever x - f, x + f, y - f and y + f are
\* computed exactly; the zero-margin-or-multiplier primitive does so when x
\* or y is zero, unless the other comparand and the margin are both
\* infinite.
C24_MarginSymmetry ==
    (ScalarReturned /\ FactorsNonNegative) =>
        /\ (/\ IsMargin
            /\ EndpointsExact(s_expected, s_evaluator.factor)
            /\ EndpointsExact(s_actual, s_evaluator.factor)) =>
              s_out[1] = MarginExchanged
        /\ (IsZeroMarginOrMultiplier /\ EitherZero /\ ~InfiniteAgainstZero) =>
              s_out[1] = ZeroMarginOrMultiplierExchanged

\* margin(0.5) found (1.0, 1.5) ApproximatelyEqual, as it finds (1.5, 1.0)
C24_Witness ==
    /\ ScalarReturned
    /\ IsMargin
    /\ s_evaluator.factor = Half
    /\ s_expected = One
    /\ s_actual = Dyadic(3, 2)
    /\ EndpointsExact(s_expected, s_evaluator.factor)
    /\ EndpointsExact(s_actual, s_evaluator.factor)
    /\ s_out[1] = "ApproximatelyEqual"
    /\ MarginExchanged = "ApproximatelyEqual"

\* the classification of the pair by the evaluator's primitive under the
\* factor g
UnderFactor(g) ==
    IF IsMargin
    THEN compare_approximate_equality_by_margin(s_expected, s_actual, g)
    ELSE compare_approximate_equality_by_multiplier(s_expected, s_actual, g)

\* C25: for the margin and the multiplier primitive and factors
\* 0 <= f <= g, a pair ApproximatelyEqual under f is ApproximatelyEqual
\* under g, and a pair Unequal under g is Unequal under f.
C25_Monotone ==
    (ScalarReturned /\ (IsMargin \/ IsMultiplier) /\ NonNegative(s_evaluator.factor)) =>
        /\ s_out[1] = "ApproximatelyEqual" =>
              \A g \in Floats :
                  FLe(s_evaluator.factor, g) => UnderFactor(g) = "ApproximatelyEqual"
        /\ s_out[1] = "Unequal" =>
              \A g \in Floats :
                  (NonNegative(g) /\ FLe(g, s_evaluator.factor)) =>
                      UnderFactor(g) = "Unequal"

\* multiplier(0.5) found (1.0, 0.5) ApproximatelyEqual, at the lower end of
\* its interval; so does every larger factor
C25_Witness ==
    /\ ScalarReturned
    /\ IsMultiplier
    /\ s_evaluator.factor = Half
    /\ s_expected = One
    /\ s_actual = Half
    /\ s_out[1] = "ApproximatelyEqual"
    /\ UnderFactor(One) = "ApproximatelyEqual"
    /\ UnderFactor(Quarter) = "Unequal"

\* C27: in a build without debug assertions the margin and the multiplier
\* primitive classify every pair under a factor -f, f > 0, as they do under
\* f.
C27_NegativeAsAbsolute ==
    (/\ ScalarReturned
     /\ ~debug_assertions
     /\ IsMargin \/ IsMultiplier
     /\ Negative(s_evaluator.factor)) =>
        s_out[1] = UnderFactor(FNeg(s_evaluator.factor))

\* margin(-0.5) in a release build found (1.0, 1.5) ApproximatelyEqual, as
\* margin(0.5) does
C27_Witness ==
    /\ ScalarReturned
    /\ ~debug_assertions
    /\ IsMargin
    /\ s_evaluator.factor = FNeg(Half)
    /\ s_expected = One
    /\ s_actual = Dyadic(3, 2)
    /\ s_out[1] = "ApproximatelyEqual"
    /\ UnderFactor(Half) = "ApproximatelyEqual"

\* ------------------------------------------------------------------------
\* Properties of the assertion macros (AssertSpec)

\* the macros were given two arguments
Omitted == a_evaluator = NoEvaluator

MacroEnded(m) == a_status[m] \in { "passed", "failed", "violation", "panicked" }

MacroFailed(m) == a_status[m] \in { "failed", "violation", "panicked" }

\* the factors the failure message of macro m shows
ReportedFactors(m) == << a_message[m][3], a_message[m][4] >>

DefaultFactors == << Some(DEFAULT_MARGIN), Some(DEFAULT_MULTIPLIER) >>

\* the zero-margin-or-multiplier strategy with the two default constants
DefaultAnswer(exp_el, act_el) ==
    << compare_approximate_equality_by_zero_margin_or_multiplier(
           testable_as_f64(exp_el), testable_as_f64(act_el),
           DEFAULT_MULTIPLIER, DEFAULT_MARGIN),
       Some(DEFAULT_MARGIN), Some(DEFAULT_MULTIPLIER) >>

\* every comparison made for the two-argument forms is the default one
DefaultComparisons ==
    /\ \A m \in ScalarMacros :
          MacroEnded(m) => a_seen[m] = DefaultAnswer(a_expected, a_actual)
    /\ \A m \in VectorMacros :
          a_status[m] = "evaluating" =>
              \A j \in 1 .. Len(calls) :
                  calls[j].out = DefaultAnswer(expected[calls[j].ix + 1],
                                               actual[calls[j].ix + 1])

\* the sequences have one length and each element pair is ExactlyEqual
\* under the default evaluator
AllExactByDefault ==
    /\ Len(a_expected) = Len(a_actual)
    /\ \A i \in 1 .. Len(a_expected) :
          DefaultAnswer(a_expected[i], a_actual[i])[1] = "ExactlyEqual"

\* C19, as stated: with the evaluator omitted, every comparison is made by
\* the zero-margin-or-multiplier strategy with the default multiplier and
\* margin, and every failure reports both default factors.
C19_AsClaimed ==
    Omitted =>
        /\ DefaultComparisons
        /\ \A m \in Macros :
              MacroFailed(m) =>
                  /\ a_status[m] = "failed"
                  /\ ReportedFactors(m) = DefaultFactors

\* C19: with the evaluator omitted, every comparison is made by the
\* zero-margin-or-multiplier strategy with the default multiplier and margin;
\* a failure is an assertion failure that reports both default factors,
\* except that assert_vector_eq_approx on sequences of different lengths
\* and assert_vector_ne_approx on sequences whose every pair is ExactlyEqual
\* report no factor.
C19_DefaultEvaluator ==
    Omitted =>
        /\ DefaultComparisons
        /\ \A m \in Macros :
              MacroFailed(m) =>
                  /\ a_status[m] = "failed"
                  /\ ReportedFactors(m) =
                        IF \/ m = VectorEq /\ Len(a_expected) # Len(a_actual)
                           \/ m = VectorNe /\ AllExactByDefault
                        THEN << None, None >>
                        ELSE DefaultFactors

\* assert_scalar_eq_approx!(NaN, NaN) has failed in a default build, and
\* assert_scalar_ne_approx!(NaN, NaN) has passed
C19_Witness ==
    /\ Omitted
    /\ ~nan_equality
    /\ a_expected = F64(NaN)
    /\ a_actual = F64(NaN)
    /\ a_status[ScalarEq] = "failed"
    /\ ReportedFactors(ScalarEq) = DefaultFactors
    /\ a_status[ScalarNe] = "passed"

\* the triple the evaluator returns reports at least one factor
ReportsFactor(out) == ~Panicked(out) /\ (out[2] # None \/ out[3] # None)

\* C20: for an evaluator whose answer for the pair reports at least one
\* factor, assert_scalar_eq_approx passes exactly if the classification is
\* ExactlyEqual or ApproximatelyEqual and fails its assertion otherwise,
\* assert_scalar_ne_approx passes exactly if it is Unequal and fails its
\* assertion otherwise; so exactly one of the two passes.
C20_ExactlyOnePasses ==
    a_status[ScalarEq] # "idle" =>
        \A out \in { MacroEvaluate(a_expected, a_actual, MacroEvaluator) } :
            ReportsFactor(out) =>
                /\ MacroEnded(ScalarEq) =>
                      /\ a_status[ScalarEq] \in { "passed", "failed" }
                      /\ a_status[ScalarEq] = "passed"
                            <=> out[1] \in { "ExactlyEqual", "ApproximatelyEqual" }
                /\ MacroEnded(ScalarNe) =>
                      /\ a_status[ScalarNe] \in { "passed", "failed" }
                      /\ a_status[ScalarNe] = "passed" <=> out[1] = "Unequal"
                /\ MacroEnded(ScalarEq) /\ MacroEnded(ScalarNe) =>
                      (a_status[ScalarEq] = "passed") # (a_status[ScalarNe] = "passed")

\* both macros were applied to 1.0 and 1.25, which the default evaluator
\* finds ApproximatelyEqual: the eq form passed and the ne form failed
C20_Witness ==
    /\ Omitted
    /\ a_expected = F64(One)
    /\ a_actual = F64(Dyadic(5, 4))
    /\ a_status[ScalarEq] = "passed"
    /\ a_status[ScalarNe] = "failed"
    /\ a_seen[ScalarEq][1] = "ApproximatelyEqual"

\* the vector macros were invoked
VectorScenario == a_status[VectorEq] # "idle"

\* the evaluator the macros work with fails debug_assert!(factor >= 0.0)
MacroEvaluatorUnchecked ==
    \/ ~NonNegative(MacroEvaluator.factor)
    \/ ~NonNegative(MacroEvaluator.multiplier_factor)
    \/ ~NonNegative(MacroEvaluator.zero_margin_factor)

\* the call evaluates an element pair, and the evaluator panics on it
VectorCallPanics ==
    /\ debug_assertions
    /\ MacroEvaluatorUnchecked
    /\ Len(a_expected) = Len(a_actual)
    /\ Len(a_expected) > 0

VectorPassing == { "ExactlyEqual", "ApproximatelyEqual" }

VectorFailing == { "DifferentLengths", "UnequalElements" }

\* what each vector macro does with the result its call returned
VectorVerdicts ==
    /\ MacroEnded(VectorEq) =>
          /\ a_status[VectorEq] \in { "passed", "failed" }
          /\ a_status[VectorEq] = "passed" <=> a_seen[VectorEq][1].tag \in VectorPassing
    /\ MacroEnded(VectorNe) =>
          /\ a_status[VectorNe] \in { "passed", "failed" }
          /\ a_status[VectorNe] = "passed" <=> a_seen[VectorNe][1].tag \in VectorFailing

\* two empty sequences: the ne form fails its assertion and shows no factor
EmptyNeFails ==
    (a_expected = << >> /\ a_actual = << >> /\ MacroEnded(VectorNe)) =>
        /\ a_status[VectorNe] = "failed"
        /\ a_message[VectorNe][1] = "failed to verify approximate inequality for vectors"
        /\ ReportedFactors(VectorNe) = << None, None >>

BothVectorEnded == MacroEnded(VectorEq) /\ MacroEnded(VectorNe)

ExactlyOneVectorPasses ==
    (a_status[VectorEq] = "passed") # (a_status[VectorNe] = "passed")

\* C21, as stated: for every pair of sequences and every stock evaluator
\* exactly one of assert_vector_eq_approx and assert_vector_ne_approx
\* passes, the eq form on ExactlyEqual and ApproximatelyEqual, the ne form on
\* DifferentLengths and UnequalElements; on two empty sequences the ne form
\* fails with an assertion failure that shows no factor.
C21_AsClaimed ==
    VectorScenario =>
        /\ BothVectorEnded => ExactlyOneVectorPasses
        /\ ~VectorCallPanics => VectorVerdicts
        /\ EmptyNeFails

\* C21: for every pair of sequences and every stock evaluator whose call
\* does not panic, exactly one of the two vector macros passes, the eq form
\* on ExactlyEqual and ApproximatelyEqual, the ne form on DifferentLengths
\* and UnequalElements; on two empty sequences the ne form fails with an
\* assertion failure that shows no factor. In a debug build an evaluator
\* holding a factor that is not >= 0.0 panics on the first element pair of
\* non-empty sequences of one length: then both macros unwind, neither passes.
C21_ExactlyOnePasses ==
    VectorScenario =>
        /\ IF VectorCallPanics
           THEN \A m \in VectorMacros : MacroEnded(m) => a_status[m] = "panicked"
           ELSE /\ VectorVerdicts
                /\ BothVectorEnded =>
                      /\ ExactlyOneVectorPasses
                      /\ a_seen[VectorEq] = a_seen[VectorNe]
        /\ EmptyNeFails

\* both macros were applied to two empty sequences: the eq form passed, the
\* ne form failed its assertion without a VIOLATION panic
C21_Witness ==
    /\ VectorScenario
    /\ a_expected = << >>
    /\ a_actual = << >>
    /\ a_status[VectorEq] = "passed"
    /\ a_status[VectorNe] = "failed"
    /\ a_message[VectorNe][1] # "VIOLATION"

====
